---- MODULE Spec2Model ----
(***************************************************************************)
(* A model of the rental scraper's recurring core, taken from the          *)
(* "modularized" package: the HeaderManager (base_headers.py), the         *)
(* RentalScraper fetch loop and main (scraper.py), the parser (parser.py)  *)
(* and the sink's client (database.py); and of the StealthHeaderManager of *)
(* the "camoufox" package (base_headers.py).                               *)
(*                                                                         *)
(* Time is the value time.time() returns, in seconds.  It advances while   *)
(* the program awaits the browser or the HTTP client.  A header            *)
(* generation always takes a measurable time (at least one tick).          *)
(*                                                                         *)
(* Header mappings are Python dict objects: heap maps an object id to the  *)
(* contents of the dict, and variables hold ids (0 is None).  An object    *)
(* nobody references is collected.                                         *)
(***************************************************************************)
EXTENDS Integers, Sequences, FiniteSets, TLC

(***************************************************************************)
(* Configuration (config.py) and bounds of the model.                      *)
(***************************************************************************)
\* ScraperConfig.header_refresh_requests, set small
header_refresh_requests == 2
\* ScraperConfig.max_retries
max_retries == 3
\* ScraperConfig.max_pages, set small
max_pages == 3
\* ScraperConfig.delay, in seconds
delay == 5
\* HeaderManager.refresh_interval_seconds
refresh_interval_seconds == 3600
\* ScraperConfig.user_agents (one entry, abbreviated)
user_agents == <<"Mozilla/5.0 Chrome/114">>

\* time.time() when the run starts (any value past the refresh interval)
StartTime == 5000
\* how many one-second and how many one-interval advances of the clock a run may see
MaxShortWaits == 3
MaxLongWaits == 1
\* dict objects alive at once
MaxObjects == 3
\* cap of the request counter in the provider's driver
MaxCount == 3
\* capitals the registry returns, URLs of one capital's search, listing cards of a page
NumTargets == 2
NumUrls == 2
MaxCards == 2
\* characters of a text the parser is given, cards of a page it is given
MaxTextLen == 3
MaxPageCards == 3

VARIABLES
    \* HeaderManager fields
    headers, request_count, last_refresh_time,
    \* the dict objects, the clock, the references callers of get_headers hold
    heap, now, held,
    \* observation of the last call the provider's driver made, and whether a call raised
    hm_call, hm_raised,
    \* main: where the program is, the index of the capital being processed,
    \* the last_processed_capital_id row of the sink
    pc, cap_idx, scraper_status,
    \* scrape_target: its locals, and how it ended (returned or raised)
    current_url, page_num, content, listing_idx, target_result, exit_reason,
    \* make_request: its locals
    attempt, response,
    \* observation of the current make_request call: one entry per attempt
    req_log,
    \* observation of the current target: the pages parsed, the save_listing calls,
    \* which save_listing call of the current page was the first to fail (0: none)
    pages, saved, failed_save,
    \* observation of the run: the capitals scrape_target was called for, and the
    \* exit code of the process (NoExit while it runs)
    attempted, exit_code,
    \* observation of the last call of a parser function
    parser_call,
    \* the sink's tables and the observation of the last save_listing call
    sink_listings, sink_observations, sink_call,
    \* the RentalScraper of the camoufox scripts: its all_listings field and
    \* the locals of scrape_multiple_urls and scrape_with_pagination
    camoufox_scraper

hm_vars == <<headers, request_count, last_refresh_time, heap, now, held, hm_call, hm_raised>>

(***************************************************************************)
(* Python dicts.                                                           *)
(***************************************************************************)
None == 0
HeapIds == 1..MaxObjects
EmptyDict == [k \in {} |-> ""]

DictSet(d, k, v) == [x \in (DOMAIN d) \cup {k} |-> IF x = k THEN v ELSE d[x]]

\* dict.update(other)
DictUpdate(d, other) ==
    [x \in (DOMAIN d) \cup (DOMAIN other) |-> IF x \in DOMAIN other THEN other[x] ELSE d[x]]

Range(s) == {s[i] : i \in DOMAIN s}

\* heap is a function from the ids of the live objects to their contents.
\* An id says which object a reference means and nothing else, so a new
\* object takes the smallest id that no reference will mean after the step.
FreeIds(keep) == HeapIds \ keep

NewId(keep) == CHOOSE i \in FreeIds(keep) : \A j \in FreeIds(keep) : i <= j

\* reference counting: what no variable references is dropped
Collect(h, live) == [i \in (DOMAIN h) \cap live |-> h[i]]

\* the heap after a new object with contents d replaced the provider's, the
\* callers keeping keep
Install(h, d, keep) ==
    [i \in ((DOMAIN h) \cap keep) \cup {NewId(keep)} |-> IF i = NewId(keep) THEN d ELSE h[i]]

(***************************************************************************)
(* The clock.                                                              *)
(***************************************************************************)
ShortWaits == (now - StartTime) % refresh_interval_seconds
LongWaits == (now - StartTime) \div refresh_interval_seconds

\* d seconds may pass (the bound of the clock)
CanPass(d) ==
    \/ d = 0
    \/ d = 1 /\ ShortWaits < MaxShortWaits
    \/ d = refresh_interval_seconds /\ LongWaits < MaxLongWaits

\* durations of an await of the scraper: the provider compares the time
\* since the last refresh with the interval only, so a wait is one that adds
\* nothing to the comparison (0) or one that decides it (the interval)
Elapsed == {0, refresh_interval_seconds}
\* durations of a wait of the provider's caller
CallerElapsed == {1, refresh_interval_seconds}
\* duration of a header generation as the provider's caller sees it: the
\* refresh is stamped after it, so its length matters only in being more
\* than nothing
GenElapsed == {1}
\* and as the scraper sees it, at the granularity of its waits
ScraperGenElapsed == {0}

(***************************************************************************)
(* HeaderManager (base_headers.py).                                        *)
(***************************************************************************)
\* what the browser does during one generation: an exception anywhere in
\* the try block, the first request event the page emits, the cookie jar
BrowserHeaders == {
    EmptyDict,
    ("user-agent" :> "Firefox") @@ ("cookie" :> "sid=1") }

BrowserRuns ==
    [raises : BOOLEAN, is_navigation : BOOLEAN, on_domain : BOOLEAN,
     request_headers : BrowserHeaders, datadome : {"", "dd1"}]

\* the browser in the scraper's runs: it captures the request and the
\* cookie (what the headers hold decides nothing in the scraper, which
\* tells sessions apart by the object)
ScraperBrowserRuns ==
    {run \in BrowserRuns :
        /\ ~run.raises /\ run.is_navigation /\ run.on_domain
        /\ run.request_headers # EmptyDict /\ run.datadome # ""}

\* the dict literal of _get_fallback_headers
FallbackDict(ua) ==
    ("User-Agent" :> ua)
    @@ ("Accept" :> "text/html,application/xhtml+xml,application/xml;q=0.9,image/webp,*/*;q=0.8")
    @@ ("Accept-Language" :> "en-US,en;q=0.5")
    @@ ("Accept-Encoding" :> "gzip, deflate, br")
    @@ ("Connection" :> "keep-alive")
    @@ ("Upgrade-Insecure-Requests" :> "1")
    @@ ("DNT" :> "1")

\* a call's outcomes: it returns a value or raises
Returns(v) == [raised |-> FALSE, value |-> v]
Raises == [raised |-> TRUE, value |-> EmptyDict]

\* _get_fallback_headers: random.choice raises on an empty list
GetFallbackHeaders ==
    IF user_agents = <<>>
    THEN {Raises}
    ELSE {Returns(FallbackDict(ua)) : ua \in Range(user_agents)}

\* headers_capture after the page.once("request") callback
HeadersCapture(run) ==
    IF run.is_navigation /\ run.on_domain
    THEN DictUpdate(EmptyDict, run.request_headers)
    ELSE EmptyDict

\* how a generation ended
GenKind(run) ==
    IF run.raises THEN "failed"
    ELSE IF HeadersCapture(run) = EmptyDict THEN "no_capture"
    ELSE "captured"

\* _generate_session_headers: the outcomes of one call
GenerateSessionHeaders_nofallback(run) ==
    IF run.raises THEN GetFallbackHeaders
    ELSE LET headers_capture == HeadersCapture(run) IN
         IF run.datadome # ""
         THEN {Returns(DictSet(headers_capture, "cookie", "datadome=" \o run.datadome))}
         ELSE {Returns(headers_capture)}

GenerateSessionHeaders(run) ==
    IF run.raises THEN GetFallbackHeaders
    ELSE LET headers_capture == HeadersCapture(run) IN
         IF headers_capture # EmptyDict
         THEN IF run.datadome # ""
              THEN {Returns(DictSet(headers_capture, "cookie", "datadome=" \o run.datadome))}
              ELSE {Returns(headers_capture)}
         ELSE GetFallbackHeaders

\* _should_refresh_headers
ShouldRefreshHeaders_strict ==
    LET is_first_run == headers = None
        is_stale_by_count == request_count > header_refresh_requests
        is_stale_by_time == (now - last_refresh_time) > refresh_interval_seconds
    IN  is_first_run \/ is_stale_by_count \/ is_stale_by_time

ShouldRefreshHeaders ==
    LET is_first_run == headers = None
        is_stale_by_count == request_count >= header_refresh_requests
        is_stale_by_time == (now - last_refresh_time) >= refresh_interval_seconds
    IN  is_first_run \/ is_stale_by_count \/ is_stale_by_time

\* refresh_headers, the generation taking d seconds; keep is what the
\* callers reference.  An exception of the generation leaves the fields as
\* they are and reaches the caller.
RefreshHeaders_inplace(run, d, keep) ==
    /\ FreeIds(keep) # {}
    /\ now' = now + d
    /\ \E out \in GenerateSessionHeaders(run) :
          IF out.raised
          THEN /\ hm_raised' = TRUE
               /\ UNCHANGED <<headers, heap, request_count, last_refresh_time>>
          ELSE /\ IF headers = None
                  THEN /\ headers' = NewId(keep)
                       /\ heap' = Install(heap, out.value, keep)
                  ELSE /\ headers' = headers
                       /\ heap' = [heap EXCEPT ![headers] = DictUpdate(@, out.value)]
               /\ request_count' = 0
               /\ last_refresh_time' = now'
               /\ hm_raised' = hm_raised

\* a refresh that fell back to the static headers leaving the count and
\* the stamp as they were
RefreshHeaders_fallbackunstamped(run, d, keep) ==
    /\ FreeIds(keep) # {}
    /\ now' = now + d
    /\ \E out \in GenerateSessionHeaders(run) :
          IF out.raised
          THEN /\ hm_raised' = TRUE
               /\ UNCHANGED <<headers, heap, request_count, last_refresh_time>>
          ELSE /\ headers' = NewId(keep)
               /\ heap' = Install(heap, out.value, keep)
               /\ request_count' = IF GenKind(run) = "captured" THEN 0 ELSE request_count
               /\ last_refresh_time' =
                     IF GenKind(run) = "captured" THEN now' ELSE last_refresh_time
               /\ hm_raised' = hm_raised

RefreshHeaders_nostamp(run, d, keep) ==
    /\ FreeIds(keep) # {}
    /\ now' = now + d
    /\ \E out \in GenerateSessionHeaders(run) :
          IF out.raised
          THEN /\ hm_raised' = TRUE
               /\ UNCHANGED <<headers, heap, request_count, last_refresh_time>>
          ELSE /\ headers' = NewId(keep)
               /\ heap' = Install(heap, out.value, keep)
               /\ request_count' = 0
               /\ last_refresh_time' = last_refresh_time
               /\ hm_raised' = hm_raised

RefreshHeaders(run, d, keep) ==
    /\ FreeIds(keep) # {}
    /\ now' = now + d
    /\ \E out \in GenerateSessionHeaders(run) :
          IF out.raised
          THEN /\ hm_raised' = TRUE
               /\ UNCHANGED <<headers, heap, request_count, last_refresh_time>>
          ELSE /\ headers' = NewId(keep)
               /\ heap' = Install(heap, out.value, keep)
               /\ request_count' = 0
               /\ last_refresh_time' = now'
               /\ hm_raised' = hm_raised

\* get_headers; the value returned is headers'
GetHeaders(run, d, keep) ==
    IF ShouldRefreshHeaders
    THEN RefreshHeaders(run, d, keep)
    ELSE UNCHANGED <<headers, heap, now, request_count, last_refresh_time, hm_raised>>

\* increment_request_count
IncrementRequestCount == request_count' = request_count + 1

\* what the driver notes of a call: the three tests of the refresh policy
\* before it, whether the refresh stamp moved, how the generation ended,
\* the mapping returned
HmCall(op, run) ==
    [op |-> op,
     first |-> headers = None,
     by_count |-> request_count >= header_refresh_requests,
     by_time |-> (now - last_refresh_time) >= refresh_interval_seconds,
     refreshed |-> last_refresh_time' # last_refresh_time,
     gen |-> IF last_refresh_time' # last_refresh_time THEN GenKind(run) ELSE "none",
     ret |-> IF op = "get_headers" /\ ~hm_raised' THEN headers' ELSE None]

NoCall(op) ==
    [op |-> op, first |-> FALSE, by_count |-> FALSE, by_time |-> FALSE,
     refreshed |-> FALSE, gen |-> "none", ret |-> None]

(***************************************************************************)
(* The listing site and the parser's results (parser.py).  A URL is a      *)
(* number, 1 being the base URL of the capital; a page is what the parser  *)
(* finds in it: the number of valid listings and the next-page link        *)
(* resolved against the page URL (0: no link).                             *)
(***************************************************************************)
Urls == 1..NumUrls
Statuses == {200, 403, 429, 500}
RequestError == -1
NoStatus == 0
NoContent == [text |-> "", cards |-> 0, next |-> None]

\* what client.get may give: the status of a response, or a transport or
\* timeout error
Outcomes == Statuses \cup {RequestError}

\* a body the HTML parser gives up on: BeautifulSoup raises, outside
\* _parse_article's try block
RejectedMarkup == [text |-> "rejected", cards |-> 0, next |-> None]

\* what response.text may be: nothing, markup the parser rejects, or a page
\* with no valid listing or with MaxCards of them
Bodies ==
    {NoContent, RejectedMarkup}
        \cup [text : {"html"}, cards : {0, MaxCards}, next : {None} \cup Urls]

scraper_vars ==
    <<pc, cap_idx, scraper_status, current_url, page_num, content, listing_idx,
      target_result, exit_reason, attempt, response, req_log, pages, saved, failed_save,
      attempted, exit_code>>

parser_vars == <<parser_call>>

sink_vars == <<sink_listings, sink_observations, sink_call>>

camoufox_vars == <<camoufox_scraper>>

(***************************************************************************)
(* RentalScraper.make_request (scraper.py).                                *)
(***************************************************************************)
\* scrape_target's "except Exception ... break" around make_request
ScrapeTargetExcept_reraise == "raise"

ScrapeTargetExcept == "break"

\* an exception leaves make_request: scrape_target's handler decides
MakeRequestRaised ==
    /\ pc' = "target_end"
    /\ exit_reason' = "critical_failure"
    /\ target_result' = IF ScrapeTargetExcept = "break" THEN "returned" ELSE "raised"
    /\ held' = {}
    /\ attempt' = 0
    /\ response' = NoStatus

\* line 85: the test of the while loop
LoopTest_onemore(url, page, cap) == url # None /\ page <= cap + 1

LoopTest(url, page, cap) == url # None /\ page <= cap

\* lines 85-87 and 46: the loop test, the call, get_headers
MakeRequestCall ==
    /\ pc = "scrape_loop"
    /\ IF LoopTest(current_url, page_num, max_pages)
       THEN \E run \in ScraperBrowserRuns, d \in ScraperGenElapsed :
               /\ GetHeaders(run, d, {})
               /\ UNCHANGED hm_call
               /\ req_log' = <<>>
               /\ IF hm_raised' \/ max_retries = 0
                  THEN MakeRequestRaised
                  ELSE /\ pc' = "get"
                       /\ held' = {headers'}
                       /\ attempt' = 0
                       /\ exit_reason' = "none"
                       /\ target_result' = "running"
                       /\ UNCHANGED response
       ELSE /\ pc' = "target_end"
            /\ exit_reason' = "page_cap"
            /\ target_result' = "returned"
            /\ UNCHANGED <<hm_vars, attempt, response, req_log>>
    /\ UNCHANGED <<cap_idx, scraper_status, current_url, page_num, content, listing_idx,
                   pages, saved, failed_save, attempted, exit_code, parser_vars, sink_vars, camoufox_vars>>

\* lines 50-53: the request, and the count of it when a response came
ClientGet_countok(status) ==
    /\ response' = status
    /\ req_log' = Append(req_log, [url |-> current_url, page |-> page_num, status |-> status,
                                  forced |-> FALSE, slept |-> 0])
    /\ IF status = 200
       THEN IncrementRequestCount
       ELSE UNCHANGED request_count

ClientGet(status) ==
    /\ response' = status
    /\ req_log' = Append(req_log, [url |-> current_url, page |-> page_num, status |-> status,
                                  forced |-> FALSE, slept |-> 0])
    /\ IF status # RequestError
       THEN IncrementRequestCount
       ELSE UNCHANGED request_count

MakeRequestGet ==
    /\ pc = "get"
    /\ \E status \in Outcomes, d \in Elapsed :
          /\ CanPass(d)
          /\ now' = now + d
          /\ ClientGet(status)
    /\ pc' = "status"
    /\ UNCHANGED <<headers, last_refresh_time, heap, held, hm_call, hm_raised>>
    /\ UNCHANGED <<cap_idx, scraper_status, current_url, page_num, content, listing_idx,
                   target_result, exit_reason, attempt, pages, saved, failed_save,
                   attempted, exit_code, parser_vars, sink_vars, camoufox_vars>>

\* the statuses that make make_request refresh the headers (line 60)
BlockedStatuses_none == {}

BlockedStatuses == {403, 429}

\* raise_for_status: 2xx passes
IsSuccess(status) == status >= 200 /\ status < 300

\* lines 65-66: the seconds slept after failed attempt a
BackoffSleep_always(a) == delay * (2 ^ a)

BackoffSleep(a) == IF a < max_retries - 1 THEN delay * (2 ^ a) ELSE 0

\* lines 65-69 and 47: sleep and go round, or give up.  Nothing reads the
\* clock between the sleep and the next request, whose duration covers both.
MakeRequestBackoff_once == MakeRequestRaised

\* the loop going round without counting the attempt
MakeRequestBackoff_uncounted ==
    /\ attempt' = attempt
    /\ response' = NoStatus
    /\ pc' = "get"
    /\ UNCHANGED <<held, target_result, exit_reason>>

MakeRequestBackoff ==
    IF attempt < max_retries - 1
    THEN /\ attempt' = attempt + 1
         /\ response' = NoStatus
         /\ pc' = "get"
         /\ UNCHANGED <<held, target_result, exit_reason>>
    ELSE MakeRequestRaised

\* lines 54-69: return the text, or handle the error and go round
MakeRequestStatus ==
    /\ pc = "status"
    /\ IF IsSuccess(response)
       THEN \* return response.text, on to line 92
            /\ \E body \in Bodies : content' = body
            /\ response' = NoStatus
            /\ pc' = "parse"
            /\ held' = {}
            /\ heap' = Collect(heap, {headers})
            /\ attempt' = 0
            /\ UNCHANGED <<headers, request_count, last_refresh_time, now, hm_call, hm_raised,
                           req_log, target_result, exit_reason>>
       ELSE IF response \in BlockedStatuses
       THEN \E run \in ScraperBrowserRuns, d \in ScraperGenElapsed :
               /\ RefreshHeaders(run, d, IF attempt < max_retries - 1 THEN held ELSE {})
               /\ UNCHANGED <<hm_call, content>>
               /\ req_log' = [req_log EXCEPT
                     ![Len(req_log)].forced = TRUE,
                     ![Len(req_log)].slept = IF hm_raised' THEN 0 ELSE BackoffSleep(attempt)]
               /\ IF hm_raised' THEN MakeRequestRaised ELSE MakeRequestBackoff
       ELSE /\ MakeRequestBackoff
            /\ req_log' = [req_log EXCEPT ![Len(req_log)].slept = BackoffSleep(attempt)]
            /\ heap' = Collect(heap, {headers} \cup held')
            /\ UNCHANGED <<headers, request_count, last_refresh_time, now, hm_call, hm_raised,
                           content>>
    /\ UNCHANGED <<cap_idx, scraper_status, current_url, page_num, listing_idx, pages, saved,
                   failed_save, attempted, exit_code, parser_vars, sink_vars, camoufox_vars>>

(***************************************************************************)
(* RentalScraper.scrape_target (scraper.py).                               *)
(***************************************************************************)
\* lines 92-102 without the test of line 98: a page without listings goes
\* on to the next-page lookup
ScrapeParse_emptyok ==
    /\ pc = "parse"
    /\ IF content.text = ""
       THEN /\ pc' = "target_end"
            /\ exit_reason' = "no_content"
            /\ target_result' = "returned"
            /\ UNCHANGED pages
       ELSE IF content = RejectedMarkup
       THEN /\ pc' = "target_end"
            /\ exit_reason' = "exception"
            /\ target_result' = "raised"
            /\ UNCHANGED pages
       ELSE /\ pc' = "persist"
            /\ pages' = Append(pages, [url |-> current_url, cards |-> content.cards,
                                       next |-> content.next])
            /\ UNCHANGED <<exit_reason, target_result>>
    /\ listing_idx' = 0
    /\ req_log' = <<>>
    /\ UNCHANGED <<hm_vars, cap_idx, scraper_status, current_url, page_num, content,
                   attempt, response, saved, failed_save, attempted, exit_code,
                   parser_vars, sink_vars, camoufox_vars>>

\* lines 92-102: the content and the listings of it
ScrapeParse ==
    /\ pc = "parse"
    /\ IF content.text = ""
       THEN /\ pc' = "target_end"
            /\ exit_reason' = "no_content"
            /\ target_result' = "returned"
            /\ UNCHANGED pages
       ELSE IF content = RejectedMarkup
       THEN \* line 95 raises, and nothing in scrape_target catches it
            /\ pc' = "target_end"
            /\ exit_reason' = "exception"
            /\ target_result' = "raised"
            /\ UNCHANGED pages
       ELSE IF content.cards = 0
       THEN /\ pc' = "target_end"
            /\ exit_reason' = "no_listings"
            /\ target_result' = "returned"
            /\ UNCHANGED pages
       ELSE /\ pc' = "persist"
            /\ pages' = Append(pages, [url |-> current_url, cards |-> content.cards,
                                       next |-> content.next])
            /\ UNCHANGED <<exit_reason, target_result>>
    /\ listing_idx' = 0
    /\ req_log' = <<>>
    /\ UNCHANGED <<hm_vars, cap_idx, scraper_status, current_url, page_num, content,
                   attempt, response, saved, failed_save, attempted, exit_code,
                   parser_vars, sink_vars, camoufox_vars>>

\* lines 104-105: one save_listing call; the sink logs what goes wrong
SaveOutcomes == {"created", "duplicate", "http_error", "network_error"}

\* the outcomes save_listing logs as errors
SaveFailures == {"http_error", "network_error"}

ScrapePersist_skiplast ==
    /\ pc = "persist"
    /\ IF listing_idx < content.cards - 1
       THEN /\ \E outcome \in SaveOutcomes :
                  /\ saved' = Append(saved, <<page_num, listing_idx + 1>>)
                  /\ failed_save' = IF failed_save = 0 /\ outcome \in SaveFailures
                                    THEN listing_idx + 1
                                    ELSE failed_save
            /\ listing_idx' = listing_idx + 1
            /\ pc' = "persist"
       ELSE /\ pc' = "advance"
            /\ UNCHANGED <<saved, listing_idx, failed_save>>
    /\ UNCHANGED <<hm_vars, cap_idx, scraper_status, current_url, page_num, content,
                   target_result, exit_reason, attempt, response, req_log, pages,
                   attempted, exit_code, parser_vars, sink_vars, camoufox_vars>>

\* the save_listing calls started and not awaited
ScrapePersist_unawaited ==
    /\ pc = "persist"
    /\ pc' = "advance"
    /\ listing_idx' = content.cards
    /\ UNCHANGED <<hm_vars, cap_idx, scraper_status, current_url, page_num, content,
                   target_result, exit_reason, attempt, response, req_log, pages, saved,
                   failed_save, attempted, exit_code, parser_vars, sink_vars, camoufox_vars>>

\* save_listing letting the error out instead of logging it
ScrapePersist_failfast ==
    /\ pc = "persist"
    /\ IF listing_idx < content.cards
       THEN \E outcome \in SaveOutcomes :
               /\ saved' = Append(saved, <<page_num, listing_idx + 1>>)
               /\ failed_save' = IF failed_save = 0 /\ outcome \in SaveFailures
                                 THEN listing_idx + 1
                                 ELSE failed_save
               /\ IF outcome \in SaveFailures
                  THEN /\ pc' = "target_end"
                       /\ exit_reason' = "exception"
                       /\ target_result' = "raised"
                       /\ UNCHANGED listing_idx
                  ELSE /\ pc' = "persist"
                       /\ listing_idx' = listing_idx + 1
                       /\ UNCHANGED <<exit_reason, target_result>>
       ELSE /\ pc' = "advance"
            /\ UNCHANGED <<saved, listing_idx, failed_save, exit_reason, target_result>>
    /\ UNCHANGED <<hm_vars, cap_idx, scraper_status, current_url, page_num, content,
                   attempt, response, req_log, pages, attempted, exit_code, parser_vars,
                   sink_vars, camoufox_vars>>

ScrapePersist ==
    /\ pc = "persist"
    /\ IF listing_idx < content.cards
       THEN /\ \E outcome \in SaveOutcomes :
                  /\ saved' = Append(saved, <<page_num, listing_idx + 1>>)
                  /\ failed_save' = IF failed_save = 0 /\ outcome \in SaveFailures
                                    THEN listing_idx + 1
                                    ELSE failed_save
            /\ listing_idx' = listing_idx + 1
            /\ pc' = "persist"
       ELSE /\ pc' = "advance"
            /\ UNCHANGED <<saved, listing_idx, failed_save>>
    /\ UNCHANGED <<hm_vars, cap_idx, scraper_status, current_url, page_num, content,
                   target_result, exit_reason, attempt, response, req_log, pages,
                   attempted, exit_code, parser_vars, sink_vars, camoufox_vars>>

\* line 108: whether the loop goes on to next_url
FollowsNext_always(next_url, cur) == next_url # None

FollowsNext(next_url, cur) == next_url # None /\ next_url # cur

\* lines 107-118: the next page, after a pause, or the end
ScrapeAdvance ==
    /\ pc = "advance"
    /\ LET next_url == content.next IN
       IF FollowsNext(next_url, current_url)
       THEN /\ current_url' = next_url
            /\ page_num' = page_num + 1
            /\ \E d \in Elapsed :
                  /\ CanPass(d)
                  /\ now' = now + d
            /\ pc' = "scrape_loop"
            /\ UNCHANGED <<exit_reason, target_result>>
       ELSE /\ pc' = "target_end"
            /\ exit_reason' = "no_more_pages"
            /\ target_result' = "returned"
            /\ UNCHANGED <<current_url, page_num, now>>
    /\ content' = NoContent
    /\ listing_idx' = 0
    /\ UNCHANGED <<headers, request_count, last_refresh_time, heap, held, hm_call, hm_raised>>
    /\ failed_save' = 0
    /\ UNCHANGED <<cap_idx, scraper_status, attempt, response, req_log, pages, saved,
                   attempted, exit_code, parser_vars, sink_vars, camoufox_vars>>

(***************************************************************************)
(* main (scraper.py).                                                      *)
(***************************************************************************)
\* capitals[i]["id"]
CapitalId(i) == i

\* asyncio.run(main()) has not returned
NoExit == -1

\* what the registry answers to fetch_active_capitals, and POSTGREST_URL
CapitalsFetches == {"capitals", "empty", "http_error", "request_error"}
PostgrestUrls == {"", "http://localhost:3001"}

\* the index of the capital whose id is the stored marker: the run starts
\* with that capital again
StartIndex_same(last_processed_id) ==
    IF last_processed_id > 0 /\ \E i \in 1..NumTargets : CapitalId(i) = last_processed_id
    THEN (CHOOSE i \in 1..NumTargets : CapitalId(i) = last_processed_id) - 1
    ELSE 0

\* lines 145-151: the index after the capital whose id is the stored marker
StartIndex(last_processed_id) ==
    IF last_processed_id > 0 /\ \E i \in 1..NumTargets : CapitalId(i) = last_processed_id
    THEN CHOOSE i \in 1..NumTargets : CapitalId(i) = last_processed_id
    ELSE 0

\* the markers a sink may hold when a run starts
StoredMarkers == 0..NumTargets

\* lines 133-162 and 76-83: the sink's client, the registry, the stored
\* marker, and the first capital's scrape_target call
MainSetup ==
    /\ pc = "start"
    /\ \E postgrest_url \in PostgrestUrls, fetch \in CapitalsFetches,
          status_ok \in BOOLEAN, reset_ok \in BOOLEAN :
          IF postgrest_url = ""
          THEN \* DatabaseManager raises ValueError: lines 184-188
               /\ pc' = "crashed"
               /\ exit_code' = 1
               /\ UNCHANGED <<cap_idx, scraper_status, attempted>>
          ELSE IF fetch # "capitals"
          THEN \* fetch_active_capitals gave []: line 140 returns
               /\ pc' = "setup_failed"
               /\ exit_code' = 0
               /\ UNCHANGED <<cap_idx, scraper_status, attempted>>
          ELSE LET last_processed_id == IF status_ok THEN scraper_status ELSE 0
                   start_index == StartIndex(last_processed_id)
               IN  /\ IF start_index >= NumTargets
                      THEN /\ scraper_status' = IF reset_ok THEN 0 ELSE scraper_status
                           /\ cap_idx' = 1
                      ELSE /\ scraper_status' = scraper_status
                           /\ cap_idx' = start_index + 1
                   /\ attempted' = <<CapitalId(cap_idx')>>
                   /\ pc' = "scrape_loop"
                   /\ exit_code' = NoExit
    /\ UNCHANGED <<hm_vars, current_url, page_num, content, listing_idx, target_result,
                   exit_reason, attempt, response, req_log, pages, saved, failed_save,
                   parser_vars, sink_vars, camoufox_vars>>

\* main's "except Exception ... continue" around scrape_target
MainExcept_abort == "raise"

MainExcept == "continue"

\* update_scraper_status called with the id of the capital about to be
\* scraped
MainNextTarget_markfirst ==
    /\ pc = "target_end"
    /\ IF target_result = "raised" /\ MainExcept # "continue"
       THEN \* the exception leaves main: lines 184-188
            /\ pc' = "crashed"
            /\ exit_code' = 1
            /\ UNCHANGED <<cap_idx, scraper_status, attempted>>
       ELSE /\ IF target_result = "returned"
               THEN \* update_scraper_status, which logs its own failures
                    \E ok \in BOOLEAN :
                       scraper_status' = IF ok THEN CapitalId(cap_idx + 1) ELSE scraper_status
               ELSE \* except Exception: continue
                    UNCHANGED scraper_status
            /\ IF cap_idx < NumTargets
               THEN /\ cap_idx' = cap_idx + 1
                    /\ attempted' = Append(attempted, CapitalId(cap_idx + 1))
                    /\ pc' = "scrape_loop"
                    /\ exit_code' = NoExit
               ELSE /\ cap_idx' = cap_idx
                    /\ attempted' = attempted
                    /\ pc' = "run_end"
                    /\ exit_code' = 0
    /\ current_url' = 1
    /\ page_num' = 1
    /\ content' = NoContent
    /\ req_log' = <<>>
    /\ pages' = <<>>
    /\ saved' = <<>>
    /\ failed_save' = 0
    /\ UNCHANGED <<hm_vars, listing_idx, attempt, response, target_result, exit_reason,
                   parser_vars, sink_vars, camoufox_vars>>

\* lines 160-176 and 76-83: the end of one capital and the start of the
\* next, or the end of the run
MainNextTarget ==
    /\ pc = "target_end"
    /\ IF target_result = "raised" /\ MainExcept # "continue"
       THEN \* the exception leaves main: lines 184-188
            /\ pc' = "crashed"
            /\ exit_code' = 1
            /\ UNCHANGED <<cap_idx, scraper_status, attempted>>
       ELSE /\ IF target_result = "returned"
               THEN \* update_scraper_status, which logs its own failures
                    \E ok \in BOOLEAN :
                       scraper_status' = IF ok THEN CapitalId(cap_idx) ELSE scraper_status
               ELSE \* except Exception: continue
                    UNCHANGED scraper_status
            /\ IF cap_idx < NumTargets
               THEN /\ cap_idx' = cap_idx + 1
                    /\ attempted' = Append(attempted, CapitalId(cap_idx + 1))
                    /\ pc' = "scrape_loop"
                    /\ exit_code' = NoExit
               ELSE /\ cap_idx' = cap_idx
                    /\ attempted' = attempted
                    /\ pc' = "run_end"
                    /\ exit_code' = 0
    /\ current_url' = 1
    /\ page_num' = 1
    /\ content' = NoContent
    /\ req_log' = <<>>
    /\ pages' = <<>>
    /\ saved' = <<>>
    /\ failed_save' = 0
    /\ UNCHANGED <<hm_vars, listing_idx, attempt, response, target_result, exit_reason,
                   parser_vars, sink_vars, camoufox_vars>>

\* no parser function and no sink operation was called
NoParserCall == [op |-> "none", done |-> FALSE]
NoSinkCall == [op |-> "none", done |-> FALSE]

\* no camoufox script runs
NoCamoufox == [pc |-> "none"]

LibraryIdle ==
    /\ parser_call = NoParserCall
    /\ sink_listings = <<>>
    /\ sink_observations = <<>>
    /\ sink_call = NoSinkCall
    /\ camoufox_scraper = NoCamoufox

Init ==
    /\ headers = None
    /\ request_count = 0
    /\ last_refresh_time = 0
    /\ heap = [i \in {} |-> EmptyDict]
    /\ now = StartTime
    /\ held = {}
    /\ hm_call = NoCall("init")
    /\ hm_raised = FALSE
    /\ pc = "start"
    /\ cap_idx = 0
    /\ scraper_status \in StoredMarkers
    /\ current_url = 1
    /\ page_num = 1
    /\ content = NoContent
    /\ listing_idx = 0
    /\ target_result = "running"
    /\ exit_reason = "none"
    /\ attempt = 0
    /\ response = NoStatus
    /\ req_log = <<>>
    /\ pages = <<>>
    /\ saved = <<>>
    /\ failed_save = 0
    /\ attempted = <<>>
    /\ exit_code = NoExit
    /\ LibraryIdle

Next ==
    \/ MainSetup
    \/ MakeRequestCall
    \/ MakeRequestGet
    \/ MakeRequestStatus
    \/ ScrapeParse
    \/ ScrapePersist
    \/ ScrapeAdvance
    \/ MainNextTarget

vars == <<hm_vars, scraper_vars, parser_vars, sink_vars, camoufox_vars>>

Spec == Init /\ [][Next]_vars

(***************************************************************************)
(* The run under an external stop signal (scraper.py, __main__).  SIGINT    *)
(* ends asyncio.run(main()) at the await main's task is suspended in: no   *)
(* handler of the package catches it on the way out (the handlers of       *)
(* make_request, scrape_target and main catch Exception and the errors of  *)
(* the HTTP client), and __main__ logs the KeyboardInterrupt.               *)
(***************************************************************************)
\* where the program awaits: the sink, the browser, the HTTP client, a sleep
AwaitingPcs == {"start", "scrape_loop", "get", "status", "persist", "advance", "target_end"}

\* lines 179-183
Interrupt ==
    /\ pc \in AwaitingPcs
    /\ pc' = "interrupted"
    /\ exit_code' = 0
    /\ UNCHANGED <<hm_vars, cap_idx, scraper_status, current_url, page_num, content,
                   listing_idx, target_result, exit_reason, attempt, response, req_log,
                   pages, saved, failed_save, attempted, parser_vars, sink_vars, camoufox_vars>>

InterruptNext ==
    \/ Next
    \/ Interrupt

SpecInterrupt == Init /\ [][InterruptNext]_vars

(***************************************************************************)
(* One scrape_target call, for the first capital of a run with no stored   *)
(* marker, in which every awaited call returns: the event loop resumes the *)
(* coroutine whenever what it awaits is done, so a step that can be taken  *)
(* is taken.                                                               *)
(***************************************************************************)
TargetInit ==
    /\ headers = None
    /\ request_count = 0
    /\ last_refresh_time = 0
    /\ heap = [i \in {} |-> EmptyDict]
    /\ now = StartTime
    /\ held = {}
    /\ hm_call = NoCall("init")
    /\ hm_raised = FALSE
    /\ pc = "scrape_loop"
    /\ cap_idx = 1
    /\ scraper_status = 0
    /\ current_url = 1
    /\ page_num = 1
    /\ content = NoContent
    /\ listing_idx = 0
    /\ target_result = "running"
    /\ exit_reason = "none"
    /\ attempt = 0
    /\ response = NoStatus
    /\ req_log = <<>>
    /\ pages = <<>>
    /\ saved = <<>>
    /\ failed_save = 0
    /\ attempted = <<CapitalId(1)>>
    /\ exit_code = NoExit
    /\ LibraryIdle

TargetNext ==
    \/ MakeRequestCall
    \/ MakeRequestGet
    \/ MakeRequestStatus
    \/ ScrapeParse
    \/ ScrapePersist
    \/ ScrapeAdvance

SpecTarget == TargetInit /\ [][TargetNext]_vars /\ WF_vars(TargetNext)

(***************************************************************************)
(* The run started from any row the sink may hold, one with the id of no   *)
(* active capital included.                                                *)
(***************************************************************************)
ResumeMarkers == 0..(NumTargets + 1)

ResumeInit ==
    /\ headers = None
    /\ request_count = 0
    /\ last_refresh_time = 0
    /\ heap = [i \in {} |-> EmptyDict]
    /\ now = StartTime
    /\ held = {}
    /\ hm_call = NoCall("init")
    /\ hm_raised = FALSE
    /\ pc = "start"
    /\ cap_idx = 0
    /\ scraper_status \in ResumeMarkers
    /\ current_url = 1
    /\ page_num = 1
    /\ content = NoContent
    /\ listing_idx = 0
    /\ target_result = "running"
    /\ exit_reason = "none"
    /\ attempt = 0
    /\ response = NoStatus
    /\ req_log = <<>>
    /\ pages = <<>>
    /\ saved = <<>>
    /\ failed_save = 0
    /\ attempted = <<>>
    /\ exit_code = NoExit
    /\ LibraryIdle

SpecResume == ResumeInit /\ [][Next]_vars

(***************************************************************************)
(* The provider alone, called in any order by a caller that keeps some of  *)
(* the mappings get_headers returned.                                      *)
(***************************************************************************)
ScraperIdle ==
    /\ pc = "idle"
    /\ cap_idx = 0
    /\ scraper_status = 0
    /\ current_url = None
    /\ page_num = 0
    /\ content = NoContent
    /\ listing_idx = 0
    /\ target_result = "running"
    /\ exit_reason = "none"
    /\ attempt = 0
    /\ response = NoStatus
    /\ req_log = <<>>
    /\ pages = <<>>
    /\ saved = <<>>
    /\ failed_save = 0
    /\ attempted = <<>>
    /\ exit_code = NoExit

HmInit ==
    /\ ScraperIdle
    /\ LibraryIdle
    /\ headers = None
    /\ request_count = 0
    /\ last_refresh_time = 0
    /\ heap = [i \in {} |-> EmptyDict]
    /\ now = StartTime
    /\ held = {}
    /\ hm_call = NoCall("init")
    /\ hm_raised = FALSE

\* headers = await header_manager.get_headers()
CallGetHeaders ==
    /\ ~hm_raised
    /\ \E run \in BrowserRuns, d \in GenElapsed :
          /\ CanPass(d)
          /\ GetHeaders(run, d, held)
          /\ hm_call' = HmCall("get_headers", run)
    /\ held' = IF hm_raised' THEN held ELSE held \cup {headers'}
    /\ UNCHANGED <<scraper_vars, parser_vars, sink_vars, camoufox_vars>>

\* await header_manager.refresh_headers()
CallRefreshHeaders ==
    /\ ~hm_raised
    /\ \E run \in BrowserRuns, d \in GenElapsed :
          /\ CanPass(d)
          /\ RefreshHeaders(run, d, held)
          /\ hm_call' = HmCall("refresh_headers", run)
    /\ held' = held
    /\ UNCHANGED <<scraper_vars, parser_vars, sink_vars, camoufox_vars>>

\* header_manager.increment_request_count()
CallIncrementRequestCount ==
    /\ ~hm_raised
    /\ request_count < MaxCount
    /\ IncrementRequestCount
    /\ hm_call' = NoCall("increment_request_count")
    /\ UNCHANGED <<headers, last_refresh_time, heap, now, held, hm_raised>>
    /\ UNCHANGED <<scraper_vars, parser_vars, sink_vars, camoufox_vars>>

\* the caller awaits something else for d seconds
CallerWaits ==
    /\ \E d \in CallerElapsed :
          /\ CanPass(d)
          /\ now' = now + d
    /\ hm_call' = NoCall("wait")
    /\ UNCHANGED <<headers, request_count, last_refresh_time, heap, held, hm_raised>>
    /\ UNCHANGED <<scraper_vars, parser_vars, sink_vars, camoufox_vars>>

\* the caller lets go of a mapping it was given
CallerDrops ==
    /\ \E id \in held :
          /\ held' = held \ {id}
          /\ heap' = Collect(heap, {headers} \cup held')
    /\ hm_call' = NoCall("drop")
    /\ UNCHANGED <<headers, request_count, last_refresh_time, now, hm_raised>>
    /\ UNCHANGED <<scraper_vars, parser_vars, sink_vars, camoufox_vars>>

HmNext ==
    \/ CallGetHeaders
    \/ CallRefreshHeaders
    \/ CallIncrementRequestCount
    \/ CallerWaits
    \/ CallerDrops

SpecHeaders == HmInit /\ [][HmNext]_vars

(***************************************************************************)
(* StealthHeaderManager (camoufox/base_headers.py), the provider of the    *)
(* camoufox scrapers, with the same fields.  A refresh is followed through *)
(* the event loop: the request handler creates a task, the task runs while *)
(* the generation awaits the page, and the generation returns to           *)
(* refresh_headers.  The generation sleeps ten times a second before it    *)
(* reads the cookies and leaves the browser's context manager, so a task   *)
(* it created has run when it returns.                                     *)
(***************************************************************************)
\* the dict literal of get_fallback_headers
StealthFallbackDict(ua) ==
    ("User-Agent" :> ua)
    @@ ("Accept" :> "text/html,application/xhtml+xml,application/xml;q=0.9,image/webp,*/*;q=0.8")
    @@ ("Accept-Language" :> "en-US,en;q=0.9")
    @@ ("Accept-Encoding" :> "gzip, deflate, br")
    @@ ("Connection" :> "keep-alive")
    @@ ("Upgrade-Insecure-Requests" :> "1")

\* get_fallback_headers: random.choice raises on an empty list
StealthGetFallbackHeaders ==
    IF user_agents = <<>>
    THEN {Raises}
    ELSE {Returns(StealthFallbackDict(ua)) : ua \in Range(user_agents)}

\* capture_request_headers, the page's "request" handler: the tasks it
\* creates, each with the headers it was given
CaptureRequestHeaders(run) ==
    IF run.is_navigation /\ run.on_domain
    THEN <<run.request_headers>>
    ELSE <<>>

\* headers_capture["cookie"] = headers_capture.get("cookie", "") + "; " + cookie_str
InjectDatadome(headers_capture, datadome) ==
    LET cookie_str == "datadome=" \o datadome
        cookie == IF "cookie" \in DOMAIN headers_capture
                  THEN headers_capture["cookie"] ELSE ""
    IN  DictSet(headers_capture, "cookie", cookie \o "; " \o cookie_str)

\* generate_session_headers: the outcomes of one call.  headers_capture is
\* the local dict of line 80, which no statement writes to before it is
\* tested: the handler hands the request's headers to
\* _update_captured_headers.
StealthGenerateSessionHeaders(run) ==
    IF run.raises THEN StealthGetFallbackHeaders
    ELSE LET headers_capture == EmptyDict IN
         IF headers_capture # EmptyDict
         THEN IF run.datadome # ""
              THEN {Returns(InjectDatadome(headers_capture, run.datadome))}
              ELSE {Returns(headers_capture)}
         ELSE StealthGetFallbackHeaders

\* what the driver notes of a refresh: the browser's run, the tasks created
\* and not yet run, whether generate_session_headers has returned
StealthCall(run, tasks, returned) ==
    [op |-> "refresh_headers", run |-> run, tasks |-> tasks, returned |-> returned]

StealthInit ==
    /\ ScraperIdle
    /\ LibraryIdle
    /\ headers = None
    /\ request_count = 0
    /\ last_refresh_time = 0
    /\ heap = [i \in {} |-> EmptyDict]
    /\ now = StartTime
    /\ held = {}
    /\ hm_call = NoCall("init")
    /\ hm_raised = FALSE

StealthAwaiting == hm_call.op = "refresh_headers" /\ ~hm_call.returned

\* refresh_headers up to the await of generate_session_headers, and the
\* generation up to its await of page.goto: the page emits its request
StealthStartRefresh ==
    /\ ~hm_raised
    /\ ~StealthAwaiting
    /\ \E d \in GenElapsed : CanPass(d)
    /\ \E run \in BrowserRuns :
          hm_call' = StealthCall(run, CaptureRequestHeaders(run), FALSE)
    /\ UNCHANGED <<headers, request_count, last_refresh_time, heap, now, held, hm_raised>>
    /\ UNCHANGED <<scraper_vars, parser_vars, sink_vars, camoufox_vars>>

\* _update_captured_headers, run by the event loop while the generation awaits
UpdateCapturedHeaders ==
    /\ StealthAwaiting
    /\ hm_call.tasks # <<>>
    /\ headers' = NewId(held)
    /\ heap' = Install(heap, DictUpdate(EmptyDict, Head(hm_call.tasks)), held)
    /\ hm_call' = StealthCall(hm_call.run, Tail(hm_call.tasks), FALSE)
    /\ UNCHANGED <<request_count, last_refresh_time, now, held, hm_raised>>
    /\ UNCHANGED <<scraper_vars, parser_vars, sink_vars, camoufox_vars>>

\* generate_session_headers returns and refresh_headers goes on.  An
\* exception reaches the except branch, which asks for the fallback headers
\* again when there are no headers.
StealthFinishRefresh ==
    /\ StealthAwaiting
    /\ hm_call.tasks = <<>>
    /\ \E d \in GenElapsed :
          /\ CanPass(d)
          /\ now' = now + d
    /\ \E out \in StealthGenerateSessionHeaders(hm_call.run) :
          IF out.raised
          THEN /\ hm_raised' = (headers = None)
               /\ UNCHANGED <<headers, heap, request_count, last_refresh_time>>
          ELSE /\ headers' = NewId(held)
               /\ heap' = Install(heap, out.value, held)
               /\ request_count' = 0
               /\ last_refresh_time' = now'
               /\ hm_raised' = hm_raised
    /\ hm_call' = StealthCall(hm_call.run, <<>>, TRUE)
    /\ held' = held
    /\ UNCHANGED <<scraper_vars, parser_vars, sink_vars, camoufox_vars>>

\* increment_request_count
StealthIncrementRequestCount ==
    /\ ~hm_raised
    /\ ~StealthAwaiting
    /\ request_count < MaxCount
    /\ IncrementRequestCount
    /\ UNCHANGED <<headers, last_refresh_time, heap, now, held, hm_call, hm_raised>>
    /\ UNCHANGED <<scraper_vars, parser_vars, sink_vars, camoufox_vars>>

StealthNext ==
    \/ StealthStartRefresh
    \/ UpdateCapturedHeaders
    \/ StealthFinishRefresh
    \/ StealthIncrementRequestCount

SpecStealth == StealthInit /\ [][StealthNext]_vars

(***************************************************************************)
(* IdealistaParser (parser.py).  A text is the sequence of its characters; *)
(* a URL or an href is the sequence of its tokens: a scheme with its       *)
(* colon, a slash, a blank, or a run of other characters.  A float is the  *)
(* decimal it was read from: the value of the integer part and the digits  *)
(* of the fraction without trailing zeros (the texts are far shorter than  *)
(* the digits a float holds exactly).                                      *)
(***************************************************************************)
Digits == {"0", "1", "2", "3", "4", "5", "6", "7", "8", "9"}

DigitVal ==
    ("0" :> 0) @@ ("1" :> 1) @@ ("2" :> 2) @@ ("3" :> 3) @@ ("4" :> 4)
    @@ ("5" :> 5) @@ ("6" :> 6) @@ ("7" :> 7) @@ ("8" :> 8) @@ ("9" :> 9)

\* str.replace(c, "")
RECURSIVE Remove(_, _)
Remove(text, c) ==
    IF text = <<>> THEN <<>>
    ELSE IF text[1] = c THEN Remove(Tail(text), c)
    ELSE <<text[1]>> \o Remove(Tail(text), c)

\* str.replace(c, d)
Replace(text, c, d) == [i \in DOMAIN text |-> IF text[i] = c THEN d ELSE text[i]]

\* re.sub(r"[^\d,.]", "", text)
RECURSIVE KeepNumeric(_)
KeepNumeric(text) ==
    IF text = <<>> THEN <<>>
    ELSE IF text[1] \in Digits \cup {",", "."} THEN <<text[1]>> \o KeepNumeric(Tail(text))
    ELSE KeepNumeric(Tail(text))

\* str.strip(), and s in text
RECURSIVE LStrip(_)
LStrip(text) == IF text # <<>> /\ text[1] = " " THEN LStrip(Tail(text)) ELSE text

RECURSIVE RStrip(_)
RStrip(text) ==
    IF text # <<>> /\ text[Len(text)] = " "
    THEN RStrip(SubSeq(text, 1, Len(text) - 1))
    ELSE text

Strip(text) == RStrip(LStrip(text))

Contains(text, c) == \E i \in DOMAIN text : text[i] = c

StartsWith(text, prefix) ==
    Len(text) >= Len(prefix) /\ SubSeq(text, 1, Len(prefix)) = prefix

\* the number a run of digits writes
RECURSIVE DigitsValue(_)
DigitsValue(ds) ==
    IF ds = <<>> THEN 0
    ELSE 10 * DigitsValue(SubSeq(ds, 1, Len(ds) - 1)) + DigitVal[ds[Len(ds)]]

RECURSIVE StripZeros(_)
StripZeros(ds) ==
    IF ds # <<>> /\ ds[Len(ds)] = "0" THEN StripZeros(SubSeq(ds, 1, Len(ds) - 1)) ELSE ds

Decimal(int_part, frac) == [int |-> int_part, frac |-> StripZeros(frac)]

\* float(text) of a text of digits and dots: <<>> for ValueError, else the
\* value in a one-element sequence
Float(text) ==
    LET dots == {i \in DOMAIN text : text[i] = "."} IN
    IF Cardinality(dots) > 1 THEN <<>>
    ELSE IF Cardinality(dots) = 0
    THEN IF text = <<>> THEN <<>> ELSE <<Decimal(DigitsValue(text), <<>>)>>
    ELSE LET d == CHOOSE i \in dots : TRUE
             int_digits == SubSeq(text, 1, d - 1)
             frac_digits == SubSeq(text, d + 1, Len(text))
         IN  IF int_digits = <<>> /\ frac_digits = <<>> THEN <<>>
             ELSE <<Decimal(DigitsValue(int_digits), frac_digits)>>

\* int(x) of a float that is not negative
int(x) == Decimal(x.int, <<>>)

\* _parse_numeric: <<>> for None
ParseNumeric_dotdecimal(text) ==
    IF text = <<>> THEN <<>>
    ELSE LET clean_text == KeepNumeric(Strip(text)) IN
         IF Contains(clean_text, ",")
         THEN Float(Replace(Remove(clean_text, "."), ",", "."))
         ELSE Float(clean_text)

ParseNumeric(text) ==
    IF text = <<>> THEN <<>>
    ELSE LET clean_text == KeepNumeric(Strip(text)) IN
         IF Contains(clean_text, ",")
         THEN Float(Replace(Remove(clean_text, "."), ",", "."))
         ELSE IF Contains(clean_text, ".")
         THEN Float(Remove(clean_text, "."))
         ELSE Float(clean_text)

\* URLs
Schemes == {"https:", "http:"}

HasScheme(url) == url # <<>> /\ url[1] \in Schemes

\* scheme://host
Origin(url) == SubSeq(url, 1, 4)

\* the URL up to the last slash of its path
Dir(url) ==
    LET slashes == {i \in 5..Len(url) : url[i] = "/"} IN
    IF slashes = {} THEN Origin(url) \o <<"/">>
    ELSE SubSeq(url, 1, CHOOSE i \in slashes : \A j \in slashes : j <= i)

\* urllib.parse.urljoin, for references without query, fragment or dot
\* segments
Urljoin(base, ref) ==
    IF ref = <<>> THEN base
    ELSE IF HasScheme(ref) THEN ref
    ELSE IF StartsWith(ref, <<"/", "/">>) THEN <<base[1]>> \o ref
    ELSE IF StartsWith(ref, <<"/">>) THEN Origin(base) \o ref
    ELSE Dir(base) \o ref

\* the literal of line 70
IdealistaOrigin == <<"https:", "/", "/", "www.idealista.com">>

\* sub in text
ContainsText(text, sub) ==
    \E i \in 1..(Len(text) - Len(sub) + 1) : SubSeq(text, i, i + Len(sub) - 1) = sub

\* re.search(r'\d+', text): the first run of digits, <<>> when there is none
FirstDigits(text) ==
    LET starts == {i \in DOMAIN text : text[i] \in Digits} IN
    IF starts = {} THEN <<>>
    ELSE LET a == CHOOSE i \in starts : \A j \in starts : i <= j
             ends == {j \in a..Len(text) : \A k \in a..j : text[k] \in Digits}
             b == CHOOSE j \in ends : \A k \in ends : k <= j
         IN  SubSeq(text, a, b)

\* the unit markers of lines 95 and 111; "sup2" is the character of the
\* superscript two, which is no digit to \d
HabMarker == <<"h", "a", "b", ".">>
SizeMarkers == {<<"m", "sup2">>, <<"m", "2">>}

\* the loops of lines 93-97 and 109-113: the index of the first
\* span.item-detail whose text holds one of the markers, 0 when none does
FirstDetail(details, markers) ==
    LET hits == {i \in DOMAIN details :
                    \E m \in markers : ContainsText(Strip(details[i]), m)} IN
    IF hits = {} THEN 0 ELSE CHOOSE i \in hits : \A j \in hits : i <= j

\* lines 98-106: <<>> for None
NumBedrooms(details) ==
    LET bedroom_tag == FirstDetail(details, {HabMarker}) IN
    IF bedroom_tag = 0 THEN <<>>
    ELSE LET ds == FirstDigits(Strip(details[bedroom_tag])) IN
         IF ds = <<>> THEN <<>> ELSE <<Decimal(DigitsValue(ds), <<>>)>>

\* lines 114-119: the listing with its size_sqm, which is None without a
\* size element and not set when the element's text gives no number
WithSizeSqm(listing, details) ==
    LET size_tag == FirstDetail(details, SizeMarkers) IN
    IF size_tag = 0 THEN listing @@ ("size_sqm" :> <<>>)
    ELSE LET size_float == ParseNumeric(Strip(details[size_tag])) IN
         IF size_float # <<>>
         THEN listing @@ ("size_sqm" :> <<int(size_float[1])>>)
         ELSE listing

\* _parse_article, of a card: the a.item-link element ("missing", "no_href"
\* or "href" with the attribute's value), the span.item-price element and
\* its text, the texts of the span.item-detail elements, and whether a
\* statement of the try block raises on it.  The value is <<>> for None,
\* else the listing in a one-element sequence.
ParseArticleTry(card, base_url, property_type) ==
    IF card.link # "href"
    THEN Returns(<<>>)
    ELSE LET href == Strip(card.href)
             url == IF StartsWith(href, <<"/", "/">>) THEN <<"https:">> \o href
                    ELSE IF StartsWith(href, <<"/">>) THEN Urljoin(IdealistaOrigin, href)
                    ELSE href
             listing == [source_url |-> base_url, property_type |-> property_type,
                         url |-> url]
             price_float == IF card.price_tag THEN ParseNumeric(Strip(card.price)) ELSE <<>>
             priced == IF price_float # <<>>
                       THEN listing @@ ("price" :> int(price_float[1]))
                       ELSE listing
             roomed == priced @@ ("num_bedrooms" :> NumBedrooms(card.details))
         IN  Returns(<<WithSizeSqm(roomed, card.details)>>)

\* the try block and its "except Exception ... return None"
ParseArticle_nocatch(card, base_url, property_type) ==
    IF card.raises THEN Raises ELSE ParseArticleTry(card, base_url, property_type)

ParseArticle(card, base_url, property_type) ==
    IF card.raises THEN Returns(<<>>) ELSE ParseArticleTry(card, base_url, property_type)

\* the list comprehensions of extract_listings_from_page
RECURSIVE ValidListings(_)
ValidListings(listings) ==
    IF listings = <<>> THEN <<>>
    ELSE listings[1] \o ValidListings(Tail(listings))

\* extract_listings_from_page, of the article.item cards of the page
ExtractListingsFromPage(cards, base_url, property_type) ==
    LET outs == [i \in DOMAIN cards |-> ParseArticle(cards[i], base_url, property_type)] IN
    IF \E i \in DOMAIN outs : outs[i].raised
    THEN Raises
    ELSE Returns(ValidListings([i \in DOMAIN outs |-> outs[i].value]))

\* find_next_page_url, of the first element the selector matches ("missing",
\* "no_href" or "href" with the attribute's value): <<>> for None
FindNextPageUrl_unresolved(next_link, base_url) ==
    IF next_link.link = "href" THEN <<next_link.href>> ELSE <<>>

FindNextPageUrl(next_link, base_url) ==
    IF next_link.link = "href" THEN <<Urljoin(base_url, next_link.href)>> ELSE <<>>

(***************************************************************************)
(* The parser alone, its functions called on pages, cards and texts of     *)
(* bounded size.                                                           *)
(***************************************************************************)
TextAlphabet == {"1", "0", ".", ",", "x"}

\* the texts of the alphabet up to the bound, and some prices as the site
\* writes them
ShortTexts == UNION {[1..n -> TextAlphabet] : n \in 0..MaxTextLen}

ExampleTexts == {
    <<"1", ".", "2", "0", "0">>,
    <<"1", ".", "2", "0", "0", ",", "5", "0">>,
    <<"n", "o", " ", "p", "r", "i", "c", "e">>,
    <<" ", "9", "5", "0", "E", "U", "R", "/", "m", "e", "s">> }

Texts == ShortTexts \cup ExampleTexts

PageUrls == {
    <<"https:", "/", "/", "www.idealista.com", "/", "alquiler-viviendas", "/", "madrid", "/">>,
    <<"https:", "/", "/", "www.idealista.pt", "/", "arrendar-casas", "/", "lisboa", "/">> }

Hrefs == {
    <<>>,
    <<" ">>,
    <<"/", "/", "www.idealista.com", "/", "inmueble", "/", "1">>,
    <<"/", "inmueble", "/", "2">>,
    <<" ", "/", "inmueble", "/", "2", " ">>,
    <<"inmueble", "/", "3">>,
    <<"https:", "/", "/", "www.idealista.com", "/", "inmueble", "/", "4">> }

PropertyTypes == {"viviendas", "habitacion"}

\* the detail texts of a card: "3 hab.", "hab.", "80 m2", "80 m" with the
\* superscript two, "1.200 m" with it, "Bajo"
DetailTexts == {
    <<"3", " ", "h", "a", "b", ".">>,
    <<"h", "a", "b", ".">>,
    <<"8", "0", " ", "m", "2">>,
    <<"8", "0", " ", "m", "sup2">>,
    <<"1", ".", "2", "0", "0", " ", "m", "sup2">>,
    <<"B", "a", "j", "o">> }

DetailLists ==
    {<<>>} \cup {<<d>> : d \in DetailTexts}
        \cup {<<(<<"3", " ", "h", "a", "b", ".">>), d>> : d \in DetailTexts}

\* the cards _parse_article is tried on: cards without details, and cards
\* with details, a link and no price
ArticleCards ==
    {card \in [link : {"missing", "no_href", "href"}, href : Hrefs,
               price_tag : BOOLEAN, price : Texts, details : {<<>>},
               raises : BOOLEAN] :
        /\ card.link # "href" => card.href = <<>>
        /\ ~card.price_tag => card.price = <<>>}
    \cup [link : {"href"}, href : {<<"/", "inmueble", "/", "2">>}, price_tag : {FALSE},
          price : {<<>>}, details : DetailLists, raises : {FALSE}]

\* the cards of the pages extract_listings_from_page is tried on
PageCards ==
    {card \in ArticleCards :
        /\ card.href \in {<<>>, <<"/", "inmueble", "/", "2">>, <<"inmueble", "/", "3">>}
        /\ card.price_tag /\ card.price = <<"1", ".", "2", "0", "0">>
        /\ card.details = <<>>
        /\ card.raises => card.link = "href" /\ card.href # <<>>}

Pages == UNION {[1..n -> PageCards] : n \in 0..MaxPageCards}

\* the next-page controls find_next_page_url is tried on
NextHrefs ==
    PageUrls \cup {
        <<>>,
        <<"pagina-2.htm">>,
        <<"/", "alquiler-viviendas", "/", "madrid", "/">>,
        <<"/", "alquiler-viviendas", "/", "madrid", "/", "pagina-2.htm">>,
        <<"/", "/", "www.idealista.com", "/", "alquiler-viviendas", "/", "madrid", "/">> }

NextLinks ==
    {next_link \in [link : {"missing", "no_href", "href"}, href : NextHrefs] :
        next_link.link # "href" => next_link.href = <<>>}

\* the calls tried: a function and its arguments
ParserCalls ==
    [op : {"_parse_numeric"}, done : {FALSE}, text : Texts]
    \cup [op : {"_parse_article"}, done : {FALSE}, card : ArticleCards,
          base_url : PageUrls, property_type : PropertyTypes]
    \cup [op : {"extract_listings_from_page"}, done : {FALSE}, cards : Pages,
          base_url : PageUrls, property_type : {"viviendas"}]
    \cup [op : {"find_next_page_url"}, done : {FALSE}, next_link : NextLinks,
          base_url : PageUrls]

ParserInit ==
    /\ ScraperIdle
    /\ headers = None
    /\ request_count = 0
    /\ last_refresh_time = 0
    /\ heap = [i \in {} |-> EmptyDict]
    /\ now = StartTime
    /\ held = {}
    /\ hm_call = NoCall("init")
    /\ hm_raised = FALSE
    /\ parser_call \in ParserCalls
    /\ sink_listings = <<>>
    /\ sink_observations = <<>>
    /\ sink_call = NoSinkCall
    /\ camoufox_scraper = NoCamoufox

CallParseNumeric ==
    /\ parser_call.op = "_parse_numeric" /\ ~parser_call.done
    /\ parser_call' =
          [op |-> parser_call.op, done |-> TRUE, text |-> parser_call.text,
           result |-> ParseNumeric(parser_call.text)]
    /\ UNCHANGED <<hm_vars, scraper_vars, sink_vars, camoufox_vars>>

CallParseArticle ==
    /\ parser_call.op = "_parse_article" /\ ~parser_call.done
    /\ parser_call' =
          [op |-> parser_call.op, done |-> TRUE, card |-> parser_call.card,
           base_url |-> parser_call.base_url, property_type |-> parser_call.property_type,
           result |-> ParseArticle(parser_call.card, parser_call.base_url,
                                   parser_call.property_type)]
    /\ UNCHANGED <<hm_vars, scraper_vars, sink_vars, camoufox_vars>>

CallExtractListingsFromPage ==
    /\ parser_call.op = "extract_listings_from_page" /\ ~parser_call.done
    /\ parser_call' =
          [op |-> parser_call.op, done |-> TRUE, cards |-> parser_call.cards,
           base_url |-> parser_call.base_url, property_type |-> parser_call.property_type,
           result |-> ExtractListingsFromPage(parser_call.cards, parser_call.base_url,
                                              parser_call.property_type)]
    /\ UNCHANGED <<hm_vars, scraper_vars, sink_vars, camoufox_vars>>

CallFindNextPageUrl ==
    /\ parser_call.op = "find_next_page_url" /\ ~parser_call.done
    /\ parser_call' =
          [op |-> parser_call.op, done |-> TRUE, next_link |-> parser_call.next_link,
           base_url |-> parser_call.base_url,
           result |-> FindNextPageUrl(parser_call.next_link, parser_call.base_url)]
    /\ UNCHANGED <<hm_vars, scraper_vars, sink_vars, camoufox_vars>>

ParserNext ==
    \/ CallParseNumeric
    \/ CallParseArticle
    \/ CallExtractListingsFromPage
    \/ CallFindNextPageUrl

SpecParser == ParserInit /\ [][ParserNext]_vars

(***************************************************************************)
(* DatabaseManager.save_listing (database.py) and the sink it posts to.    *)
(* The sink's tables are not defined in the package: the listings table    *)
(* is keyed by url, the observations table takes every row.  A table is    *)
(* the sequence of its rows.                                               *)
(***************************************************************************)
MaxSaves == 3

ListingUrls == {"inmueble/1", "inmueble/2"}
Prices == {900, 950}

\* the room counts and sizes _parse_article may have set: None or a number
RoomCounts == {<<>>, <<3>>}
Sizes == {<<>>, <<80>>}

\* the listings save_listing is given, with the keys _parse_article sets:
\* without details, and one with its room count and its size
SinkListings ==
    {listing_data \in [url : ListingUrls, price : Prices, num_bedrooms : RoomCounts,
                       size_sqm : Sizes] :
        \/ listing_data.num_bedrooms = <<>> /\ listing_data.size_sqm = <<>>
        \/ /\ listing_data.num_bedrooms # <<>> /\ listing_data.size_sqm # <<>>
           /\ listing_data.url = "inmueble/1" /\ listing_data.price = 900}

\* dict.get(key): <<>> for None
Get(d, key) == IF key \in DOMAIN d THEN d[key] ELSE <<>>

\* how a POST goes: the table answers, the sink answers with a server
\* error, or no response arrives
SinkAnswers == {"answer", "http_error", "network_error"}

\* lines 58 and 63-76
Prefer == "resolution=ignore-duplicates"

\* lines 63-76: the keys with None values are dropped (line 76)
StaticListingPayload(listing_data, capital_id) ==
    LET size_m2 == Get(listing_data, "size_m2")
        rooms == Get(listing_data, "rooms")
        keyed == [url |-> listing_data.url, scraping_target_id |-> capital_id]
        sized == IF size_m2 # <<>> THEN keyed @@ ("size_m2" :> size_m2) ELSE keyed
    IN  IF rooms # <<>> THEN sized @@ ("rooms" :> rooms) ELSE sized

\* lines 101-105
ObsPayload(listing_data) == [listing_url |-> listing_data.url, price |-> listing_data.price]

\* the listings table: what a POST of row may answer and leave in the table
ListingsPost(rows, row, prefer, post) ==
    IF post = "network_error" THEN {[status |-> RequestError, rows |-> rows]}
    ELSE IF post = "http_error" THEN {[status |-> 500, rows |-> rows]}
    ELSE IF \E i \in DOMAIN rows : rows[i].url = row.url
    THEN IF prefer = "resolution=ignore-duplicates"
         THEN {[status |-> st, rows |-> rows] : st \in {200, 201, 409}}
         ELSE {[status |-> 409, rows |-> rows]}
    ELSE {[status |-> 201, rows |-> Append(rows, row)]}

\* the observations table
ObservationsPost(rows, row, post) ==
    IF post = "network_error" THEN [status |-> RequestError, rows |-> rows]
    ELSE IF post = "http_error" THEN [status |-> 500, rows |-> rows]
    ELSE [status |-> 201, rows |-> Append(rows, row)]

\* lines 82-86: the statuses after which save_listing goes on
SaveListingAccepts_created(status) == status = 201

SaveListingAccepts(status) == status = 201 \/ status = 409 \/ IsSuccess(status)

\* lines 96-114: _save_observation, which logs its own failures
SaveObservation(listing_data, obs_post) ==
    sink_observations' =
        ObservationsPost(sink_observations, ObsPayload(listing_data), obs_post).rows

\* lines 80-94: what save_listing does after the answer to its POST
SaveListingResult(status) ==
    IF status = RequestError THEN "network_error"
    ELSE IF SaveListingAccepts(status) THEN "ok"
    ELSE "http_error"

SavesDone == IF sink_call.op = "none" THEN 0 ELSE sink_call.n

Stored(url) == {i \in DOMAIN sink_listings : sink_listings[i].url = url}

\* what the driver notes of a save_listing call: the listing, how the two
\* POSTs went ("none": _save_observation was not called), the status
\* answered and what save_listing logged
SinkCall(listing_data, post, obs_post, status) ==
    [op |-> "save_listing", done |-> TRUE, n |-> SavesDone + 1,
     listing |-> listing_data, post |-> post, obs_post |-> obs_post,
     stored_before |-> Stored(listing_data.url) # {},
     status |-> status,
     result |-> SaveListingResult(status)]

\* lines 53-94
SaveListing(listing_data, capital_id, post) ==
    \E answer \in ListingsPost(sink_listings,
                               StaticListingPayload(listing_data, capital_id),
                               Prefer, post) :
       /\ sink_listings' = answer.rows
       /\ IF SaveListingResult(answer.status) = "ok"
          THEN \E obs_post \in SinkAnswers :
                  /\ SaveObservation(listing_data, obs_post)
                  /\ sink_call' = SinkCall(listing_data, post, obs_post, answer.status)
          ELSE /\ UNCHANGED sink_observations
               /\ sink_call' = SinkCall(listing_data, post, "none", answer.status)

(***************************************************************************)
(* The sink alone: save_listing called for one listing after another, in   *)
(* one run or in several.                                                  *)
(***************************************************************************)
SinkInit ==
    /\ ScraperIdle
    /\ headers = None
    /\ request_count = 0
    /\ last_refresh_time = 0
    /\ heap = [i \in {} |-> EmptyDict]
    /\ now = StartTime
    /\ held = {}
    /\ hm_call = NoCall("init")
    /\ hm_raised = FALSE
    /\ LibraryIdle

CallSaveListing ==
    /\ SavesDone < MaxSaves
    /\ \E listing_data \in SinkListings, capital_id \in 1..NumTargets,
          post \in SinkAnswers :
          SaveListing(listing_data, capital_id, post)
    /\ UNCHANGED <<hm_vars, scraper_vars, parser_vars, camoufox_vars>>

SinkNext == CallSaveListing

SpecSink == SinkInit /\ [][SinkNext]_vars

(***************************************************************************)
(* The RentalScraper of the camoufox scripts scraper_httpx.py and          *)
(* scraper2.py: scrape_multiple_urls, scrape_with_pagination, scrape_url.  *)
(* The two scripts differ in the text they hand to find_next_page_url.     *)
(* A content is a sequence of tokens, one for a character of text or for   *)
(* the next-page anchor the pattern "next_page" matches.                   *)
(***************************************************************************)
\* ScraperConfig.max_listings, set small
max_listings == 3
\* the URLs the script is given
NumStartUrls == 2
\* the characters of a content kept in content_preview
PreviewLen == 500

Variants == {"scraper_httpx", "scraper2"}

\* detect_site of a start URL
Sites == {"idealista", "unknown"}

StartUrlLists == UNION {[1..n -> Sites] : n \in 1..NumStartUrls}

TextToken == [tag |-> "text", href |-> None]
NextAnchor(url) == [tag |-> "a.next", href |-> url]

\* what a page of the listing site holds: listings, and maybe a next-page
\* anchor, which comes first or after PreviewLen characters of text
SitePages ==
    [listings : {0, MaxCards}, next : {None}, deep : {FALSE}]
    \cup [listings : {0, MaxCards}, next : Urls, deep : BOOLEAN]

\* response.text of a page
PageContent(page) ==
    [k \in 1..(IF page.deep THEN PreviewLen ELSE 0) |-> TextToken]
    \o (IF page.next # None THEN <<NextAnchor(page.next)>> ELSE <<>>)
    \o <<TextToken>>

\* content[:500] + "..." if len(content) > 500 else content
ContentPreview(html) ==
    IF Len(html) > PreviewLen
    THEN SubSeq(html, 1, PreviewLen) \o <<TextToken, TextToken, TextToken>>
    ELSE html

\* find_next_page_url on an idealista URL: the first match of the
\* "next_page" pattern (the "pagination" pattern is searched in the same
\* text and is left out)
CamoufoxFindNextPageUrl(html) ==
    LET matches == {k \in DOMAIN html : html[k].tag = "a.next"} IN
    IF matches # {}
    THEN html[CHOOSE k \in matches : \A j \in matches : k <= j].href
    ELSE None

\* the text scrape_with_pagination looks the next page up in
\* (scraper_httpx.py 388, scraper2.py 469-471)
LookupText(variant, page) ==
    IF variant = "scraper2"
    THEN ContentPreview(PageContent(page))
    ELSE PageContent(page)

\* no page fetched: scrape_url returned None (make_request gave up or
\* something raised), or no call yet
NoPage == [url |-> None]

CamoufoxInit ==
    /\ ScraperIdle
    /\ headers = None
    /\ request_count = 0
    /\ last_refresh_time = 0
    /\ heap = [i \in {} |-> EmptyDict]
    /\ now = StartTime
    /\ held = {}
    /\ hm_call = NoCall("init")
    /\ hm_raised = FALSE
    /\ parser_call = NoParserCall
    /\ sink_listings = <<>>
    /\ sink_observations = <<>>
    /\ sink_call = NoSinkCall
    /\ camoufox_scraper \in
          [variant : Variants, urls : StartUrlLists, i : {1}, pc : {"multi"},
           current_url : {None}, page_num : {0}, all_listings : {<<>>}, last : {NoPage}]

\* scrape_multiple_urls, one round of its loop up to the call of
\* scrape_with_pagination; extract_listings is on.  For a URL of another
\* site scrape_url extracts nothing.
ScrapeMultipleUrls ==
    /\ camoufox_scraper.pc = "multi"
    /\ LET c == camoufox_scraper IN
       IF c.i > Len(c.urls)
       THEN camoufox_scraper' = [c EXCEPT !.pc = "done"]
       ELSE IF c.urls[c.i] = "idealista"
       THEN camoufox_scraper' =
               [c EXCEPT !.pc = "paginate", !.current_url = 1, !.page_num = 1]
       ELSE camoufox_scraper' = [c EXCEPT !.i = c.i + 1]
    /\ UNCHANGED <<hm_vars, scraper_vars, parser_vars, sink_vars>>

\* scrape_with_pagination, one round of its loop with the scrape_url call,
\* or its return
ScrapeWithPagination ==
    /\ camoufox_scraper.pc = "paginate"
    /\ LET c == camoufox_scraper
           returned == [c EXCEPT !.pc = "multi", !.i = c.i + 1] IN
       IF /\ c.current_url # None
          /\ c.page_num <= max_pages
          /\ Len(c.all_listings) < max_listings
       THEN \/ camoufox_scraper' = [returned EXCEPT !.last = NoPage]
            \/ \E page \in SitePages :
                  LET listings == [k \in 1..page.listings |-> c.current_url]
                      next_url == CamoufoxFindNextPageUrl(LookupText(c.variant, page))
                      scraped == [c EXCEPT
                                    !.all_listings = c.all_listings \o listings,
                                    !.last = [url |-> c.current_url, page |-> page,
                                              next_url |-> next_url]]
                  IN  IF next_url # None /\ next_url # c.current_url
                      THEN camoufox_scraper' =
                              [scraped EXCEPT !.current_url = next_url,
                                              !.page_num = c.page_num + 1]
                      ELSE camoufox_scraper' =
                              [scraped EXCEPT !.pc = "multi", !.i = c.i + 1]
       ELSE camoufox_scraper' = returned
    /\ UNCHANGED <<hm_vars, scraper_vars, parser_vars, sink_vars>>

CamoufoxNext ==
    \/ ScrapeMultipleUrls
    \/ ScrapeWithPagination

SpecCamoufox == CamoufoxInit /\ [][CamoufoxNext]_vars

(***************************************************************************)
(* Properties of the fetch loop, checked under Spec.                       *)
(***************************************************************************)
\* every attempt of the current make_request call was answered with status
AlwaysAnswered(status) ==
    /\ req_log # <<>>
    /\ \A k \in DOMAIN req_log : req_log[k].status = status

\* the target was given up after make_request failed, scrape_target returning
Abandoned ==
    /\ pc = "target_end"
    /\ exit_reason = "critical_failure"
    /\ target_result = "returned"

\* C1: when the client answers 500 to every attempt for a page, the page is
\* asked for exactly max_retries times, no further request follows, and
\* scrape_target gives the target up and returns without raising.
C1_RetryBound ==
    AlwaysAnswered(500) =>
        /\ pc \in {"get", "status", "target_end"}
        /\ pc = "get" => Len(req_log) < max_retries
        /\ pc = "status" => Len(req_log) <= max_retries
        /\ pc = "target_end" => Len(req_log) = max_retries /\ Abandoned
        /\ \A k \in DOMAIN req_log :
              req_log[k].url = current_url /\ req_log[k].page = page_num

C1_Witness ==
    /\ AlwaysAnswered(500)
    /\ Len(req_log) = max_retries
    /\ Abandoned

\* C2: when the client answers 403 and then 200, one forced refresh took
\* place (after the 403), both attempts asked for the same URL with the same
\* page number, which is the page scrape_target is at, and the 200's body is
\* what goes to the parser.
C2_BlockedThenOk ==
    (/\ Len(req_log) = 2
     /\ req_log[1].status = 403
     /\ req_log[2].status = 200
     /\ pc # "status") =>
        /\ Cardinality({k \in DOMAIN req_log : req_log[k].forced}) = 1
        /\ req_log[1].forced
        /\ req_log[1].url = req_log[2].url
        /\ req_log[1].page = req_log[2].page
        /\ req_log[2].url = current_url
        /\ req_log[2].page = page_num
        /\ page_num = Len(pages) + 1
        /\ pc = "parse"
        /\ held = {}

C2_Witness ==
    /\ pc = "parse"
    /\ Len(req_log) = 2
    /\ req_log[1].status = 403 /\ req_log[1].forced
    /\ req_log[2].status = 200
    /\ content.text = "html" /\ content.cards > 0

\* C3: when the client answers 403 to every attempt for a page, or 429 to
\* every attempt, the attempts are at most max_retries, after which
\* scrape_target gives the target up without raising; and main goes from
\* the end of a target to the next capital, or to the end of the run after
\* the last.
C3_BlockedState ==
    (AlwaysAnswered(403) \/ AlwaysAnswered(429)) =>
        /\ Len(req_log) <= max_retries
        /\ pc \in {"get", "status", "target_end"}
        /\ pc = "get" => Len(req_log) < max_retries
        /\ pc = "target_end" => Len(req_log) = max_retries /\ Abandoned

C3_Continues ==
    pc = "target_end" =>
        IF cap_idx < NumTargets
        THEN pc' = "scrape_loop" /\ cap_idx' = cap_idx + 1 /\ current_url' = 1 /\ page_num' = 1
        ELSE pc' = "run_end"

C3_BlockedBound == [](C3_BlockedState) /\ [][C3_Continues]_vars

C3_Witness ==
    /\ AlwaysAnswered(429)
    /\ Abandoned
    /\ cap_idx = 2
    /\ Len(req_log) = max_retries

\* the save_listing calls of page p of the current target
SavesOf(p) == {k \in DOMAIN saved : saved[k][1] = p}

\* C4: a page whose next-page link resolves to its own URL is the last page
\* of the target: no request follows it, and when the target ends its
\* listings were saved once each.
C4_SelfLinkStops ==
    \A p \in DOMAIN pages :
        pages[p].next = pages[p].url =>
            /\ p = Len(pages)
            /\ pc \in {"persist", "advance", "target_end"}
            /\ pc = "target_end" =>
                  /\ exit_reason = "no_more_pages"
                  /\ Cardinality(SavesOf(p)) = pages[p].cards

C4_Witness ==
    /\ pc = "target_end"
    /\ Len(pages) = 1
    /\ pages[1].next = pages[1].url
    /\ Len(saved) = pages[1].cards

\* the save_listing calls that pages from..Len(pages) ask for, in order
RECURSIVE ExpectedSaves(_, _)
ExpectedSaves(from, idx) ==
    IF from > Len(pages) THEN <<>>
    ELSE IF idx > pages[from].cards THEN ExpectedSaves(from + 1, 1)
    ELSE <<(<<from, idx>>)>> \o ExpectedSaves(from, idx + 1)

\* C5: when n <= max_pages pages were fetched, each with a listing at least,
\* and the last has no next link, save_listing was called once for every
\* listing of every page, in the order of the pages and of the listings,
\* and scrape_target has returned.
C5_SavesAll ==
    (/\ pc = "target_end"
     /\ pages # <<>>
     /\ pages[Len(pages)].next = None
     /\ exit_reason = "no_more_pages") =>
        /\ Len(pages) <= max_pages
        /\ saved = ExpectedSaves(1, 1)
        /\ target_result = "returned"

C5_Witness ==
    /\ pc = "target_end"
    /\ exit_reason = "no_more_pages"
    /\ Len(pages) = 2
    /\ pages[2].next = None
    /\ pages[1].cards > 1
    /\ Len(saved) = pages[1].cards + pages[2].cards
    /\ saved[1] = <<1, 1>> /\ saved[2] = <<1, 2>>
    /\ saved[Len(saved)] = <<2, pages[2].cards>>

\* C9: the step in which client.get answers adds one to the request count
\* when a response came, whatever its status, and nothing when the request
\* failed in transport; no other step of the scraper adds to the count.
C9_Step ==
    IF pc = "get"
    THEN /\ pc' = "status"
         /\ request_count' = IF response' \in Statuses THEN request_count + 1 ELSE request_count
    ELSE request_count' = request_count \/ request_count' = 0

C9_CountsResponses == [][C9_Step]_vars

C9_Witness ==
    /\ pc = "status"
    /\ response = 500
    /\ Len(req_log) = 2
    /\ req_log[1].status = RequestError
    /\ request_count = 1

(***************************************************************************)
(* Properties of the header provider, checked under SpecHeaders.           *)
(***************************************************************************)
\* the refresh policy, on the fields as they are
PolicyNoSession == headers = None
PolicyCount == request_count >= header_refresh_requests
PolicyAge == now - last_refresh_time >= refresh_interval_seconds

\* C6: a get_headers call made when the request count has reached
\* header_refresh_requests refreshes: it installs a session stamped later
\* than the one before, returns it, and sets the request count to 0.
C6_Step ==
    (hm_call'.op = "get_headers" /\ PolicyCount) =>
        /\ last_refresh_time' > last_refresh_time
        /\ last_refresh_time' = now'
        /\ request_count' = 0
        /\ headers' \in DOMAIN heap'
        /\ hm_call'.ret = headers'

C6_CountRefresh == [][C6_Step]_vars

C6_Witness ==
    /\ hm_call.op = "get_headers"
    /\ hm_call.by_count /\ ~hm_call.first /\ ~hm_call.by_time
    /\ hm_call.refreshed
    /\ request_count = 0
    /\ last_refresh_time = now

\* C7: a get_headers call refreshes exactly when there is no session, or
\* the request count has reached the threshold, or the age has reached the
\* interval; otherwise it returns the session there is and leaves the
\* headers, their contents, the request count and the stamp as they were.
C7_Step ==
    hm_call'.op = "get_headers" =>
        /\ (last_refresh_time' # last_refresh_time)
              <=> (PolicyNoSession \/ PolicyCount \/ PolicyAge)
        /\ ~(PolicyNoSession \/ PolicyCount \/ PolicyAge) =>
              /\ headers' = headers
              /\ heap'[headers'] = heap[headers]
              /\ request_count' = request_count
              /\ last_refresh_time' = last_refresh_time
              /\ hm_call'.ret = headers

C7_RefreshPolicy == [][C7_Step]_vars

C7_Witness ==
    /\ hm_call.op = "get_headers"
    /\ ~hm_call.refreshed
    /\ request_count = header_refresh_requests - 1
    /\ now - last_refresh_time = 1

FallbackSessions == {FallbackDict(user_agents[i]) : i \in DOMAIN user_agents}

\* C8: no call of the provider raises; the mapping get_headers returns is a
\* live, non-empty mapping; and after a refresh whose generation failed or
\* captured no navigation headers the session is the static fallback set.
C8_NeverFails ==
    /\ ~hm_raised
    /\ hm_call.op = "get_headers" =>
          /\ hm_call.ret = headers
          /\ hm_call.ret \in DOMAIN heap
          /\ DOMAIN heap[hm_call.ret] # {}
    /\ hm_call.gen \in {"failed", "no_capture"} =>
          /\ headers \in DOMAIN heap
          /\ heap[headers] \in FallbackSessions

C8_Witness ==
    /\ hm_call.op = "get_headers"
    /\ hm_call.gen = "no_capture"
    /\ heap[hm_call.ret] \in FallbackSessions

\* C10: a mapping a caller holds keeps its contents through every step,
\* and a refresh leaves a held mapping aside and installs another.
C10_Step ==
    /\ \A id \in held \cap held' :
          /\ id \in DOMAIN heap /\ id \in DOMAIN heap'
          /\ heap'[id] = heap[id]
    /\ (last_refresh_time' # last_refresh_time /\ headers \in held) => headers' # headers

C10_SessionsImmutable == [][C10_Step]_vars

C10_Witness ==
    /\ hm_call.op = "refresh_headers"
    /\ \E id \in held : id # headers /\ heap[id] # heap[headers]

(***************************************************************************)
(* Properties of main, checked under Spec.                                 *)
(***************************************************************************)
\* scrape_target was called for the capitals of a run of consecutive
\* registry entries ending with the current one
AttemptedInOrder ==
    /\ attempted # <<>>
    /\ Len(attempted) <= cap_idx
    /\ \A k \in DOMAIN attempted :
          attempted[k] = CapitalId(cap_idx - Len(attempted) + k)

\* scrape_target ended in failure: make_request gave up, or an exception
\* escaped scrape_target
TargetFailed ==
    /\ pc = "target_end"
    /\ \/ target_result = "raised"
       \/ exit_reason = "critical_failure"

\* C11: a capital whose scrape failed (retries exhausted, or an exception
\* leaving scrape_target) is followed by the scrape of the next capital of
\* the registry, or by the normal end of the run after the last; the process
\* stops early only in the setup, and the capitals attempted are
\* consecutive registry entries in registry order.
C11_State ==
    /\ pc \notin {"start", "setup_failed", "crashed"} => AttemptedInOrder
    /\ pc = "run_end" => attempted[Len(attempted)] = CapitalId(NumTargets)
    /\ pc = "crashed" => attempted = <<>>

C11_Step ==
    TargetFailed =>
        IF cap_idx < NumTargets
        THEN /\ pc' = "scrape_loop"
             /\ cap_idx' = cap_idx + 1
             /\ attempted' = Append(attempted, CapitalId(cap_idx + 1))
             /\ exit_code' = NoExit
        ELSE /\ pc' = "run_end"
             /\ attempted' = attempted

C11_FailureIsolated == [](C11_State) /\ [][C11_Step]_vars

C11_Witness ==
    /\ pc = "scrape_loop"
    /\ attempted = <<CapitalId(1), CapitalId(2)>>
    /\ target_result = "raised"
    /\ exit_reason = "exception"

\* C12 (as claimed): the process ends with exit code 0 when the run went
\* through its capitals, and with another code when the setup failed: the
\* sink's URL unusable, or the registry giving no capitals.
C12_ExitCodes ==
    /\ pc = "run_end" => exit_code = 0
    /\ pc \in {"setup_failed", "crashed"} => exit_code \notin {NoExit, 0}

\* C25: the marker is written in two places only: the reset to 0 of the
\* setup, and the end of a target whose scrape_target returned, where it
\* becomes that target's id before the next target's first request (or the
\* end of the run); the index of the capital moves by one, at the end of a
\* target, so the markers written follow the order of the registry.
C25_Step ==
    /\ scraper_status' # scraper_status =>
          \/ pc = "start" /\ scraper_status' = 0
          \/ /\ pc = "target_end" /\ target_result = "returned"
             /\ scraper_status' = CapitalId(cap_idx)
             /\ pc' \in {"scrape_loop", "run_end"}
             /\ req_log' = <<>>
    /\ cap_idx' # cap_idx =>
          \/ pc = "start"
          \/ pc = "target_end" /\ cap_idx' = cap_idx + 1
    /\ pc \in {"get", "status"} => cap_idx' = cap_idx /\ scraper_status' = scraper_status

C25_State ==
    pc \in {"scrape_loop", "get", "status", "parse", "persist", "advance", "target_end"} =>
        /\ cap_idx \in 1..NumTargets
        /\ attempted[Len(attempted)] = CapitalId(cap_idx)

C25_MarkersInOrder == [](C25_State) /\ [][C25_Step]_vars

C25_Witness ==
    /\ pc = "get"
    /\ cap_idx = 2
    /\ attempted = <<CapitalId(1), CapitalId(2)>>
    /\ scraper_status = CapitalId(1)
    /\ target_result = "running"

\* C18: a save_listing call that fails (HTTP error status or network error)
\* does not end the page: each step of the persist loop passes the next
\* listing to save_listing whatever became of the earlier ones, the loop
\* leaves for the next-page decision only after the last listing, and that
\* decision depends on the page's link alone; so when the decision is due
\* after a failed save every listing of the page was passed to save_listing.
C18_State ==
    (pc = "advance" /\ failed_save > 0) =>
        /\ Cardinality(SavesOf(page_num)) = content.cards
        /\ target_result = "running"

C18_Step ==
    /\ (pc = "persist" /\ listing_idx < content.cards) =>
          /\ pc' = "persist"
          /\ listing_idx' = listing_idx + 1
          /\ saved' = Append(saved, <<page_num, listing_idx + 1>>)
          /\ target_result' = target_result
    /\ (pc = "persist" /\ listing_idx >= content.cards) => pc' = "advance"
    /\ pc = "advance" =>
          IF content.next # None /\ content.next # current_url
          THEN pc' = "scrape_loop" /\ current_url' = content.next /\ page_num' = page_num + 1
          ELSE pc' = "target_end" /\ exit_reason' = "no_more_pages"
               /\ target_result' = "returned"

C18_SaveFailureContinues == [](C18_State) /\ [][C18_Step]_vars

C18_Witness ==
    /\ pc = "advance"
    /\ failed_save = 1
    /\ content.cards > 1
    /\ content.next \in Urls \ {current_url}
    /\ \E k \in DOMAIN saved : saved[k] = <<page_num, content.cards>>

\* the page in content has a next-page link to another URL
HasDistinctNext == content.next # None /\ content.next # current_url

\* C20 as stated: a target whose page was fetched and parsed ends only
\* because the page has no next-page link, or one to its own URL, or because
\* of the page cap; a page with a link to another URL below the cap is never
\* the last, whatever the number of its listings.
C20_OnlyListedTerminals ==
    (pc = "target_end" /\ exit_reason \notin {"critical_failure", "no_content", "exception"}) =>
        \/ exit_reason = "page_cap" /\ page_num > max_pages
        \/ /\ exit_reason = "no_more_pages"
           /\ pages # <<>>
           /\ pages[Len(pages)].next \in {None, pages[Len(pages)].url}
        \/ content.text = "html" /\ (~HasDistinctNext \/ page_num >= max_pages)

\* C20, amended: a target whose page was fetched ends because the body is
\* empty, because the HTML parser raised, because no listing was extracted
\* from the page, because the page has no next-page link or one to its own
\* URL, or because of the page cap; and a page that gave a listing at least
\* and links to another URL is followed by a request for that URL when the
\* cap allows.
C20_State ==
    pc = "target_end" =>
        /\ exit_reason \in {"critical_failure", "no_content", "exception", "no_listings",
                            "no_more_pages", "page_cap"}
        /\ exit_reason = "no_content" => content.text = ""
        /\ exit_reason = "exception" => content = RejectedMarkup
        /\ exit_reason = "no_listings" => content.text = "html" /\ content.cards = 0
        /\ exit_reason = "no_more_pages" =>
              /\ pages # <<>>
              /\ pages[Len(pages)].next \in {None, pages[Len(pages)].url}
        /\ exit_reason = "page_cap" => page_num > max_pages

C20_Step ==
    /\ pc = "parse" =>
          IF content.text = "html" /\ content.cards > 0
          THEN pc' = "persist"
          ELSE pc' = "target_end"
    /\ pc = "advance" =>
          IF HasDistinctNext
          THEN pc' = "scrape_loop" /\ current_url' = content.next
          ELSE pc' = "target_end"
    /\ pc = "scrape_loop" =>
          IF page_num <= max_pages
          THEN pc' = "get" /\ current_url' = current_url
          ELSE pc' = "target_end"

C20_Terminals == [](C20_State) /\ [][C20_Step]_vars

C20_Witness ==
    /\ pc = "get"
    /\ page_num = 2
    /\ Len(pages) = 1
    /\ pages[1].cards > 0
    /\ pages[1].next = current_url
    /\ pages[1].url # current_url

\* C22: the pages of a target go through fetch, parse, persist and advance
\* in that order.  While a page is being persisted the save_listing calls
\* made are those of the earlier pages and of the first listings of this
\* one; at every other point they are those of all the pages parsed, so at
\* the next-page decision, at every request for the following page and at
\* the end of the target, however it ends.  Requests are for the page after
\* the last one parsed.
C22_PageOrder ==
    LET expected == ExpectedSaves(1, 1) IN
    /\ pc = "persist" =>
          /\ pages # <<>> /\ pages[Len(pages)].url = current_url
          /\ Len(pages) = page_num
          /\ Len(saved) = Len(expected) - (content.cards - listing_idx)
          /\ saved = SubSeq(expected, 1, Len(saved))
    /\ pc # "persist" => saved = expected
    /\ pc = "advance" => Len(pages) = page_num /\ listing_idx = content.cards
    /\ pc \in {"get", "status", "parse"} => Len(pages) = page_num - 1
    /\ \A k \in DOMAIN req_log : req_log[k].page = Len(pages) + 1

C22_Witness ==
    /\ pc = "target_end"
    /\ exit_reason = "critical_failure"
    /\ page_num = 2
    /\ Len(pages) = 1
    /\ pages[1].cards > 1
    /\ Len(saved) = pages[1].cards
    /\ Len(req_log) = max_retries

(***************************************************************************)
(* Properties of the run under a stop signal, checked under SpecInterrupt. *)
(***************************************************************************)
\* C21: when the stop signal arrives while the listings of a page are being
\* persisted, every listing of that page was passed to save_listing by the
\* time the run has stopped.
C21_InterruptFinishesPage ==
    (pc = "interrupted" /\ content.text = "html" /\ content.cards > 0) =>
        Cardinality(SavesOf(page_num)) = content.cards

(***************************************************************************)
(* Properties of the parser, checked under SpecParser.                     *)
(***************************************************************************)
EndsWith(text, suffix) ==
    Len(text) >= Len(suffix)
        /\ SubSeq(text, Len(text) - Len(suffix) + 1, Len(text)) = suffix

\* a URL with a scheme and a host
IsAbsolute(url) ==
    /\ HasScheme(url)
    /\ Len(url) >= 4
    /\ url[2] = "/" /\ url[3] = "/"
    /\ url[4] \notin {"/", " "}

\* a card without its link: the link element or its href attribute is not
\* there, or the card makes the parsing of it raise
Malformed(card) == card.link # "href" \/ card.raises

IsWellFormed(card) == ~Malformed(card)

\* listing is what a parse of card gives: the URL ends with the card's href
ListingOfCard(listing, card) == EndsWith(listing.url, Strip(card.href))

\* C13: extract_listings_from_page does not raise, whatever cards the page
\* has; of k cards with m malformed (no link element, no href attribute, or
\* raising when parsed) it returns k-m listings, the i-th being the listing
\* of the i-th well-formed card.
C13_CardIsolation ==
    (parser_call.op = "extract_listings_from_page" /\ parser_call.done) =>
        LET good == SelectSeq(parser_call.cards, IsWellFormed)
            res == parser_call.result
        IN  /\ ~res.raised
            /\ Len(res.value) = Len(good)
            /\ \A i \in DOMAIN good : ListingOfCard(res.value[i], good[i])

C13_Witness ==
    /\ parser_call.op = "extract_listings_from_page" /\ parser_call.done
    /\ Len(parser_call.cards) = 3
    /\ IsWellFormed(parser_call.cards[1])
    /\ parser_call.cards[2].link = "no_href"
    /\ IsWellFormed(parser_call.cards[3])
    /\ parser_call.cards[1].href # parser_call.cards[3].href
    /\ Len(parser_call.result.value) = 2

\* C14 (as claimed): every listing extract_listings_from_page returns has a
\* url that is not empty, and the listings are as many as the cards whose
\* link has an href that is not empty.
C14_UrlRequired ==
    (parser_call.op = "extract_listings_from_page" /\ parser_call.done
        /\ ~parser_call.result.raised) =>
        LET with_url == {i \in DOMAIN parser_call.cards :
                            /\ parser_call.cards[i].link = "href"
                            /\ Strip(parser_call.cards[i].href) # <<>>}
            listings == parser_call.result.value
        IN  /\ \A i \in DOMAIN listings : listings[i].url # <<>>
            /\ Len(listings) <= Cardinality(with_url)

\* the digits of a text, and how many commas it has
IsDigit(c) == c \in Digits

DigitsOf(text) == SelectSeq(text, IsDigit)

Commas(text) == Cardinality({i \in DOMAIN text : text[i] = ","})

\* the normalization rule: no number without a digit or with several
\* commas; with one comma the digits before it are the integer part and the
\* digits after it the fraction; without a comma the digits are an integer
RuleValue(text) ==
    IF DigitsOf(text) = <<>> \/ Commas(text) > 1 THEN <<>>
    ELSE IF Commas(text) = 1
    THEN LET c == CHOOSE i \in DOMAIN text : text[i] = "," IN
         <<Decimal(DigitsValue(DigitsOf(SubSeq(text, 1, c - 1))),
                   DigitsOf(SubSeq(text, c + 1, Len(text))))>>
    ELSE <<Decimal(DigitsValue(DigitsOf(text)), <<>>)>>

\* a card whose parse gave a listing, with a price element
PricedListing ==
    /\ parser_call.op = "_parse_article" /\ parser_call.done
    /\ parser_call.card.price_tag
    /\ parser_call.result.value # <<>>

\* C15 (as claimed): the price a listing records is the number the rule
\* gives for the price text, fraction included, and the field is absent
\* when the rule gives none.
C15_PriceNormalized ==
    PricedListing =>
        LET rule == RuleValue(parser_call.card.price)
            listing == parser_call.result.value[1]
        IN  IF rule = <<>>
            THEN "price" \notin DOMAIN listing
            ELSE "price" \in DOMAIN listing /\ listing.price = rule[1]

\* C15 (amended): _parse_numeric gives the number of the rule, and the
\* price a listing records is the integer part of it; the field is absent
\* when the rule gives none.
C15_PriceInteger ==
    /\ (parser_call.op = "_parse_numeric" /\ parser_call.done) =>
          parser_call.result = RuleValue(parser_call.text)
    /\ PricedListing =>
          LET rule == RuleValue(parser_call.card.price)
              listing == parser_call.result.value[1]
          IN  IF rule = <<>>
              THEN "price" \notin DOMAIN listing
              ELSE /\ "price" \in DOMAIN listing
                   /\ listing.price = [int |-> rule[1].int, frac |-> <<>>]

C15_Witness ==
    /\ PricedListing
    /\ parser_call.card.price = <<"1", ".", "2", "0", "0", ",", "5", "0">>
    /\ parser_call.result.value[1].price = [int |-> 1200, frac |-> <<>>]

\* C16 (as claimed): the url of a listing parsed from a card whose href is
\* not empty is absolute, and is the href resolved against the page URL.
C16_ResolvedAgainstPage ==
    (/\ parser_call.op = "_parse_article" /\ parser_call.done
     /\ parser_call.result.value # <<>>
     /\ Strip(parser_call.card.href) # <<>>) =>
        LET listing == parser_call.result.value[1] IN
        /\ IsAbsolute(listing.url)
        /\ listing.url = Urljoin(parser_call.base_url, Strip(parser_call.card.href))

\* C17 (as claimed): find_next_page_url returns None when there is no
\* next-page link and when the link resolves to the page URL, and the
\* resolved link otherwise.
C17_NextOrNone ==
    (parser_call.op = "find_next_page_url" /\ parser_call.done) =>
        LET resolved == Urljoin(parser_call.base_url, parser_call.next_link.href) IN
        parser_call.result =
            IF parser_call.next_link.link # "href" \/ resolved = parser_call.base_url
            THEN <<>>
            ELSE <<resolved>>

\* C17 (amended): find_next_page_url returns None exactly when there is no
\* next-page link with an href; otherwise it returns an absolute URL: the
\* href itself when that has a scheme, the page URL when the href is empty,
\* else a URL of the page's scheme (and of its host unless the href names
\* one) that ends with the href.  The page URL itself may be returned.
C17_NextResolved ==
    (parser_call.op = "find_next_page_url" /\ parser_call.done) =>
        LET href == parser_call.next_link.href
            base_url == parser_call.base_url
            result == parser_call.result
        IN  IF parser_call.next_link.link # "href" THEN result = <<>>
            ELSE /\ Len(result) = 1
                 /\ IsAbsolute(result[1])
                 /\ HasScheme(href) => result[1] = href
                 /\ href = <<>> => result[1] = base_url
                 /\ ~HasScheme(href) =>
                       /\ result[1][1] = base_url[1]
                       /\ EndsWith(result[1], href)
                       /\ ~StartsWith(href, <<"/", "/">>) => Origin(result[1]) = Origin(base_url)

C17_Witness ==
    /\ parser_call.op = "find_next_page_url" /\ parser_call.done
    /\ parser_call.next_link.link = "href"
    /\ ~HasScheme(parser_call.next_link.href)
    /\ parser_call.result = <<parser_call.base_url>>

\* the run of digits next to the first marker of text: the digits that end
\* where the marker begins, blanks between them aside
DigitsBefore(text, markers) ==
    LET at == {i \in DOMAIN text :
                  \E m \in markers :
                     /\ i + Len(m) - 1 <= Len(text)
                     /\ SubSeq(text, i, i + Len(m) - 1) = m}
        first == CHOOSE i \in at : \A j \in at : i <= j
        head == RStrip(SubSeq(text, 1, first - 1))
        runs == {a \in DOMAIN head : \A k \in a..Len(head) : head[k] \in Digits}
    IN  IF at = {} \/ runs = {} THEN <<>>
        ELSE SubSeq(head, CHOOSE a \in runs : \A b \in runs : a <= b, Len(head))

\* the number the claim's rule gives for the first detail with a marker
DetailValue(details, markers) ==
    LET tag == FirstDetail(details, markers)
        ds == IF tag = 0 THEN <<>> ELSE DigitsBefore(Strip(details[tag]), markers)
    IN  IF ds = <<>> THEN <<>> ELSE <<Decimal(DigitsValue(ds), <<>>)>>

\* C23: the room count and the size of a listing are the digits next to the
\* unit marker of the first detail that carries it ("80 m2" gives 80,
\* "3 hab." gives 3), and a field whose marker no detail carries is unset.
C23_DetailsByMarker ==
    (/\ parser_call.op = "_parse_article" /\ parser_call.done
     /\ parser_call.result.value # <<>>) =>
        LET listing == parser_call.result.value[1]
            details == parser_call.card.details
        IN  /\ Get(listing, "num_bedrooms") = DetailValue(details, {HabMarker})
            /\ Get(listing, "size_sqm") = DetailValue(details, SizeMarkers)

(***************************************************************************)
(* Properties of the sink, checked under SpecSink.                         *)
(***************************************************************************)
\* the observations stored for url
ObservationsOf(url) ==
    {i \in DOMAIN sink_observations : sink_observations[i].listing_url = url}

\* C19: no url has two rows in the listings table, whatever was saved and
\* however often; and a save_listing call for a url that was stored already,
\* answered by the table, leaves the one row and logs no error, whether the
\* table ignores the duplicate or answers 409.
C19_OneRowPerUrl ==
    /\ \A url \in ListingUrls : Cardinality(Stored(url)) <= 1
    /\ (/\ sink_call.op = "save_listing"
        /\ sink_call.stored_before
        /\ sink_call.post = "answer") =>
          /\ Cardinality(Stored(sink_call.listing.url)) = 1
          /\ sink_call.result = "ok"

C19_Witness ==
    /\ sink_call.op = "save_listing"
    /\ sink_call.stored_before
    /\ sink_call.status = 409
    /\ sink_call.result = "ok"
    /\ Cardinality(Stored(sink_call.listing.url)) = 1
    /\ \E i, j \in ObservationsOf(sink_call.listing.url) :
          sink_observations[i].price # sink_observations[j].price

\* the row of the listings table for url
RowOf(url) == sink_listings[CHOOSE i \in Stored(url) : TRUE]

\* C24: the row a save_listing call stored carries the size and the room
\* count the parser set in the listing, and lacks one of them only when the
\* parser left it unset.
C24_Projection ==
    (/\ sink_call.op = "save_listing"
     /\ sink_call.result = "ok"
     /\ ~sink_call.stored_before) =>
        LET row == RowOf(sink_call.listing.url) IN
        /\ Get(row, "size_m2") = Get(sink_call.listing, "size_sqm")
        /\ Get(row, "rooms") = Get(sink_call.listing, "num_bedrooms")


\* the headers the browser's request carried, with the cookie the site set
\* afterwards
CapturedSession(run) ==
    IF run.datadome # ""
    THEN InjectDatadome(run.request_headers, run.datadome)
    ELSE run.request_headers

\* a refresh is over in which the page sent a navigation request with
\* headers to the target domain and nothing raised
CapturedRefreshDone ==
    /\ hm_call.op = "refresh_headers"
    /\ hm_call.returned
    /\ ~hm_call.run.raises
    /\ hm_call.run.is_navigation /\ hm_call.run.on_domain
    /\ hm_call.run.request_headers # EmptyDict

\* C26: when the page sent a navigation request to the target domain and the
\* generation did not raise, the headers refresh_headers installs are the
\* headers of that request, the datadome cookie merged into the cookie header
\* when one was set, and not the fallback headers.
C26_CapturedHeadersInstalled ==
    CapturedRefreshDone =>
        /\ headers # None
        /\ heap[headers] = CapturedSession(hm_call.run)


\* C27: every attempt of make_request is sent with the mapping of the
\* provider's session at that moment: when an attempt is about to be issued,
\* the mapping make_request holds is the provider's, also on the retry that
\* follows the refresh a 403 or 429 forced.
C27_AttemptUsesCurrentSession ==
    pc = "get" => held = {headers}


\* C28: a capital whose scrape was abandoned because a page used up its
\* retries is not recorded as completed: the step main takes after it leaves
\* the stored marker as it was, so that a resumed run starts at that capital.
C28_Step == Abandoned => scraper_status' = scraper_status

C28_AbandonedNotMarked == [][C28_Step]_vars


\* the place in the list of the capital whose id is the marker, 0 when no
\* capital has it
PositionOf(marker) ==
    IF \E i \in 1..NumTargets : CapitalId(i) = marker
    THEN CHOOSE i \in 1..NumTargets : CapitalId(i) = marker
    ELSE 0

\* main starts its loop over the capitals
LoopStarts == pc = "start" /\ pc' = "scrape_loop"

\* the capitals are taken in list order, none left out, and a run that ends
\* went as far as the last
InListOrder ==
    /\ \A i \in 1..(Len(attempted) - 1) :
          PositionOf(attempted[i + 1]) = PositionOf(attempted[i]) + 1
    /\ pc = "run_end" => attempted[Len(attempted)] = CapitalId(NumTargets)

\* C29 as stated: the run whose stored marker is the id of the k-th capital
\* starts with capital k+1; with the last capital's id the marker is reset to
\* 0 and the run starts with the first capital; with 0 or an id no capital
\* has it starts with the first capital; the capitals follow in list order.
C29_StatedStep ==
    LoopStarts =>
        LET k == PositionOf(scraper_status) IN
        IF k = NumTargets
        THEN attempted' = <<CapitalId(1)>> /\ scraper_status' = 0
        ELSE attempted' = <<CapitalId(k + 1)>> /\ scraper_status' = scraper_status

C29_Step ==
    LoopStarts =>
        LET k == PositionOf(scraper_status) IN
        IF k = NumTargets
        THEN /\ attempted' = <<CapitalId(1)>>
             /\ scraper_status' \in {0, scraper_status}
        ELSE /\ attempted' \in {<<CapitalId(k + 1)>>, <<CapitalId(1)>>}
             /\ scraper_status' = scraper_status

C30_NoPageTwice ==
    \A i, j \in DOMAIN pages : i # j => pages[i].url # pages[j].url


\* C31: scrape_target fetches at most max_pages pages for one target,
\* whatever links the pages carry: a request is only made for a page number
\* up to max_pages and no more than max_pages pages are parsed; with a cap of
\* 0 the first test of the loop, made with page number 1, fails for every
\* URL, so no request is made.
C31_PageCap ==
    /\ Len(pages) <= max_pages
    /\ pc \in {"get", "status", "parse", "persist", "advance"} => page_num <= max_pages
    /\ \A url \in Urls : ~LoopTest(url, 1, 0)

\* a target ended at the cap, max_pages pages fetched and parsed
C31_Witness ==
    /\ pc = "target_end"
    /\ exit_reason = "page_cap"
    /\ Len(pages) = max_pages


\* scrape_target is running
InTarget == pc \in {"scrape_loop", "get", "status", "parse", "persist", "advance"}

\* the requests made for the current target: those of the current
\* make_request call, and no more than max_retries for each page before
RequestsBound == Len(pages) * max_retries + Len(req_log)

\* C32: given that every awaited call returns, scrape_target terminates
\* whatever the client, the header generator, the parser and the sink do; no
\* make_request call makes more than max_retries requests and no more than
\* max_pages calls are made, so that the requests for one target are at most
\* max_pages * max_retries.
C32_Bounded ==
    /\ Len(req_log) <= max_retries
    /\ pc \in {"get", "status"} => Len(pages) = page_num - 1 /\ page_num <= max_pages
    /\ RequestsBound <= max_pages * max_retries

C32_Terminates == [](C32_Bounded) /\ (InTarget ~> pc = "target_end")

\* a target that used max_retries requests for its last page, at the cap
C32_Witness ==
    /\ pc = "target_end"
    /\ Len(pages) = max_pages - 1
    /\ Len(req_log) = max_retries


\* C33: after failed attempt a (counted from 0) with a < max_retries - 1
\* make_request sleeps once, delay * 2^a seconds, before attempt a+1, whether
\* the attempt failed with an error status, a blocked status or a transport
\* error; it does not sleep after the last failed attempt nor after a
\* successful one.
C33_Backoff ==
    \A k \in DOMAIN req_log :
        IF k < Len(req_log) \/ pc = "get"
        THEN /\ k <= max_retries - 1
             /\ req_log[k].slept = delay * (2 ^ (k - 1))
        ELSE req_log[k].slept = 0

\* a call gave up after a transport error, a blocked status and an error
\* status, having slept after the first two
C33_Witness ==
    /\ pc = "target_end"
    /\ Len(req_log) = max_retries
    /\ req_log[1].status = RequestError /\ req_log[1].slept = delay
    /\ req_log[2].status = 403 /\ req_log[2].slept = 2 * delay
    /\ req_log[max_retries].status = 500 /\ req_log[max_retries].slept = 0


\* C34: no session's headers are used for more than header_refresh_requests
\* requests: whenever a request attempt is about to be issued, a retry inside
\* a make_request call included, the request count since the last refresh
\* is at most the threshold.
C34_CountWithinThreshold ==
    pc = "get" => request_count <= header_refresh_requests


\* the session is the static fallback set, and neither the count nor the
\* age asks for a refresh
FreshFallback ==
    /\ headers \in DOMAIN heap
    /\ heap[headers] \in FallbackSessions
    /\ request_count < header_refresh_requests
    /\ (now - last_refresh_time) < refresh_interval_seconds

\* the step installs the fallback set where there was no session or a
\* captured one
FellBack ==
    /\ headers' \in DOMAIN heap'
    /\ heap'[headers'] \in FallbackSessions
    /\ headers \in DOMAIN heap => heap[headers] \notin FallbackSessions

\* C35: a refresh that fell back to the static headers resets the request
\* count to 0 and stamps the refresh time like any other; and while the
\* session is the fallback set, a get_headers call made below the count
\* threshold and the age interval returns it without a new generation.
C35_Step ==
    /\ (hm_call'.gen \in {"failed", "no_capture"} \/ FellBack) =>
          /\ request_count' = 0
          /\ last_refresh_time' = now'
          /\ heap'[headers'] \in FallbackSessions
    /\ (hm_call'.op = "get_headers" /\ FreshFallback) =>
          /\ ~hm_call'.refreshed
          /\ headers' = headers
          /\ hm_call'.ret = headers
          /\ UNCHANGED <<request_count, last_refresh_time>>

C35_FallbackIsRefresh == [][C35_Step]_vars

\* a get_headers call returned the fallback session, used once since the
\* failed generation, without refreshing
C35_Witness ==
    /\ hm_call.op = "get_headers"
    /\ ~hm_call.refreshed
    /\ headers \in DOMAIN heap
    /\ heap[headers] \in FallbackSessions
    /\ request_count = 1


\* C36: every save_listing call stores one new observation of the listing it
\* was given (its url and price), unless the observations table refuses it:
\* when the listing's row was newly inserted, when it was ignored as a
\* duplicate, and when the insert of the row failed.
C36_Step ==
    (/\ sink_call'.op = "save_listing"
     /\ sink_call'.n = SavesDone + 1
     /\ sink_call'.obs_post \in {"answer", "none"}) =>
        sink_observations' =
            Append(sink_observations,
                   [listing_url |-> sink_call'.listing.url,
                    price |-> sink_call'.listing.price])

C36_AlwaysObserved == [][C36_Step]_vars


\* C37: in the camoufox scripts the number of listings collected in
\* all_listings never exceeds max_listings, however many listings a page
\* carries.
C37_ListingCap ==
    camoufox_scraper.pc # "none" =>
        Len(camoufox_scraper.all_listings) <= max_listings

\* C38: in scrape_with_pagination of scraper2.py the next-page URL is the one
\* the complete content of the page just fetched holds, wherever in the page
\* the anchor is, also after the first PreviewLen characters.
C38_NextFromWholePage ==
    (/\ camoufox_scraper.pc # "none"
     /\ camoufox_scraper.variant = "scraper2"
     /\ camoufox_scraper.last # NoPage) =>
        camoufox_scraper.last.next_url =
            CamoufoxFindNextPageUrl(PageContent(camoufox_scraper.last.page))

====
